---- MODULE Spec2Model ----
(***************************************************************************)
(* Voice-dictation pipeline of AITravelPlanner.                            *)
(*                                                                         *)
(*   - the transcript accumulator (aggregateText) of the speech route,     *)
(*   - the WebSocket session of the speech route (bridge) and of the key   *)
(*     test route (probe): timer, abort, open/message/error/close,         *)
(*   - the speech route's request handling up to the session,              *)
(*   - the useSpeechRecognition hook's capture life cycle.                 *)
(*                                                                         *)
(* Text is a sequence of characters; " " stands for any white space.       *)
(***************************************************************************)
EXTENDS Integers, Sequences, FiniteSets, TLC

VARIABLES
    \* ---- the accumulator exercised alone
    accumulated,   \* Map<number,string>, entries in insertion order
    finalText,     \* the last value aggregateText returned
    accLast,       \* the result applied last
    accCount,      \* number of results applied
    permInputs,    \* results to be applied in every order
    permPending    \* those of permInputs not applied yet

accVars == <<accumulated, finalText, accLast, accCount, permInputs, permPending>>

VARIABLES
    \* ---- one WebSocket session (speech route, or key test route)
    kind,          \* "bridge" (speech route) or "probe" (testXfyunKey)
    ready,         \* socket.readyState
    opened,        \* the open event was delivered
    settled,       \* let settled
    timer,         \* "pending", "cleared" (clearTimeout) or "fired"
    resolves,      \* number of calls of resolve
    rejects,       \* number of calls of reject
    outcome,       \* state of the promise: [state, text, error]
    closeCalls,    \* arguments of the socket.close calls, in order
    sent,          \* frames given to socket.send, in order
    msgCount,      \* message events delivered
    errCount,      \* error events delivered
    lastEvent,     \* the event handled last
    legacyLog      \* non-empty texts applied without sn before settlement

sessVars == <<kind, ready, opened, settled, timer, resolves, rejects, outcome,
              closeCalls, sent, msgCount, errCount, lastEvent, legacyLog>>

VARIABLES
    \* ---- one request of the speech route (POST /api/speech/xfyun)
    pc,            \* where the request handler stands
    audioBase64,   \* the audioBase64 field of the request body
    user,          \* user?.id from supabase.auth.getUser()
    appId,         \* let appId
    apiKey,        \* let apiKey
    apiSecret,     \* let apiSecret
    handshake,     \* dateHeader, authorization and wsUrl, once computed
    response,      \* the NextResponse returned
    aborted        \* request.signal.aborted: the caller has cancelled or disconnected

postVars == <<pc, audioBase64, user, appId, apiKey, apiSecret, handshake, response,
             aborted>>

VARIABLES
    \* ---- one instance of the useSpeechRecognition hook
    supported,        \* the memoized capability test
    listening,        \* useState listening
    processing,       \* useState processing
    hookError,        \* useState error
    mediaStreamRef,   \* capture whose stream the ref holds (0: null)
    audioContextRef,  \* capture whose audio context the ref holds (0: null)
    processorRef,     \* capture whose processor node the ref holds (0: null)
    audioChunks,      \* length of audioChunksRef.current
    captures,         \* getUserMedia calls made so far; they are numbered 1, 2, ...
    startTask,        \* per capture: where the async body of startListening stands
    stream,           \* per capture: its MediaStream ("none", "live", "stopped")
    context,          \* per capture: its AudioContext ("none", "open", "closed")
    processor,        \* per capture: its processor node ("none", "connected", "disconnected")
    tasks             \* async bodies that called cleanupResources, in order of creation

hookVars == <<supported, listening, processing, hookError, mediaStreamRef,
              audioContextRef, processorRef, audioChunks, captures, startTask,
              stream, context, processor, tasks>>

VARIABLES
    \* ---- the audio encoding of stopListening
    data,               \* resampleBuffer: the merged samples
    inputSampleRate,    \* resampleBuffer: inputSampleRate
    targetSampleRate,   \* resampleBuffer: targetSampleRate
    resampled,          \* resampleBuffer: what it returned
    reads,              \* resampleBuffer: the indices of data it has read
    floats,             \* floatTo16BitPCM: the samples given to it
    pcm                 \* floatTo16BitPCM: the 16-bit integers it stored

dspVars == <<data, inputSampleRate, targetSampleRate, resampled, reads, floats, pcm>>

VARIABLES
    \* ---- what the credentials step of the speech route reads
    processEnv,     \* process.env
    userSecrets,    \* what getDecryptedUserSecret returns for each key
    storeThrows     \* a read of the user's secrets throws

credVars == <<processEnv, userSecrets, storeThrows>>

VARIABLES
    \* ---- one key test of the budget route (handleTest, testXfyunKey)
    probePc,          \* where the key test stands
    probeAppId,       \* handleTest: appId
    probeApiKey,      \* handleTest: apiKey
    probeApiSecret,   \* handleTest: apiSecret
    probeHandshake,   \* testXfyunKey: dateHeader, authorization and wsUrl
    probeAnswer       \* the TestResult returned before any socket is created

probeVars == <<probePc, probeAppId, probeApiKey, probeApiSecret, probeHandshake,
               probeAnswer>>

VARIABLES
    \* ---- requests of the speech route served at the same time
    sessions,        \* per request: the locals of its POST call and its socket
    WebSocketCtor    \* the module variable WebSocketCtor

pairVars == <<sessions, WebSocketCtor>>

vars == <<accVars, sessVars, postVars, hookVars, dspVars, credVars, probeVars,
          pairVars>>

----------------------------------------------------------------------------
(* Bounds of the model *)

MaxSn == 2          \* sequence numbers 1..MaxSn in the accumulator runs
MaxApply == 3       \* results applied per accumulator run
PermMaxSn == 3      \* sequence numbers 1..PermMaxSn in the permutation runs
MaxStarts == 2      \* getUserMedia calls per hook instance
MaxStops == 2       \* stopListening calls that pass the guard, per hook instance
MaxChunks == 1      \* audio chunks buffered at once
MaxMsgs == 3        \* message events per session
MaxErrors == 1      \* error events per session

----------------------------------------------------------------------------
(* Text *)

Chars == {"a", "b", "c", " "}

IsSpace(c) == c = " "

RECURSIVE TrimStart(_)
TrimStart(t) ==
    IF Len(t) > 0 /\ IsSpace(Head(t)) THEN TrimStart(Tail(t)) ELSE t

RECURSIVE TrimEnd(_)
TrimEnd(t) ==
    IF Len(t) > 0 /\ IsSpace(t[Len(t)]) THEN TrimEnd(SubSeq(t, 1, Len(t) - 1)) ELSE t

\* String.prototype.trim
Trim(t) == TrimEnd(TrimStart(t))

\* Array.prototype.join("") over a sequence of texts
RECURSIVE Join(_)
Join(ts) == IF ts = <<>> THEN <<>> ELSE Head(ts) \o Join(Tail(ts))

----------------------------------------------------------------------------
(* WpgsResult and the accumulator *)

\* a parsed result; isNull stands for parseResult returning null
MkResult(hasSn, sn, pgs, hasRg, rg, ws) ==
    [isNull |-> FALSE, hasSn |-> hasSn, sn |-> sn, pgs |-> pgs,
     hasRg |-> hasRg, rg |-> rg, ws |-> ws]

NullResult ==
    [isNull |-> TRUE, hasSn |-> FALSE, sn |-> 0, pgs |-> "none",
     hasRg |-> FALSE, rg |-> <<0, 0>>, ws |-> <<>>]

\* the words of result.ws, joined
extractTextFromWs(result) ==
    IF result.isNull THEN <<>> ELSE Join(result.ws)

\* Map in insertion order: a sequence of [k, v]
MapKeys(store) == {store[i].k : i \in 1..Len(store)}

MapHas(store, key) == key \in MapKeys(store)

MapGet(store, key) ==
    LET i == CHOOSE j \in 1..Len(store) : store[j].k = key IN store[i].v

\* Map.prototype.set: an existing key keeps its place
MapSet(store, key, value) ==
    IF MapHas(store, key)
    THEN [i \in 1..Len(store) |->
            IF store[i].k = key THEN [k |-> key, v |-> value] ELSE store[i]]
    ELSE Append(store, [k |-> key, v |-> value])

\* the loop of store.delete over the keys in [start, end]
DeleteRange(store, start, end) ==
    LET Keep(e) == ~(e.k >= start /\ e.k <= end) IN SelectSeq(store, Keep)

\* entries sorted by ascending key (keys of a Map are distinct)
RECURSIVE SortEntries(_)
SortEntries(store) ==
    IF store = <<>> THEN <<>>
    ELSE LET m == CHOOSE i \in 1..Len(store) :
                    \A j \in 1..Len(store) : store[i].k <= store[j].k
             NotMin(e) == e.k # store[m].k
         IN <<store[m]>> \o SortEntries(SelectSeq(store, NotMin))

\* mutant: the entries are joined in insertion order, without the sort
RenderUnsorted(store) == Join([i \in 1..Len(store) |-> store[i].v])

\* Array.from(store.entries()).sort(...).map(...).join("")
Render(store) ==
    LET s == SortEntries(store) IN Join([i \in 1..Len(s) |-> s[i].v])

\* mutant: the range is taken exclusive of its end
AfterReplaceExclusive(result, store) ==
    IF result.pgs = "rpl" /\ result.hasRg
    THEN LET Keep(e) == ~(e.k >= result.rg[1] /\ e.k < result.rg[2])
         IN SelectSeq(store, Keep)
    ELSE store

\* the store after the rpl branch of aggregateText
AfterReplace(result, store) ==
    IF result.pgs = "rpl" /\ result.hasRg
    THEN DeleteRange(store, result.rg[1], result.rg[2])
    ELSE store

\* variant: a result with empty text removes the fragment at its number
aggregateStoreEmptyDeletes(result, store) ==
    IF result.isNull \/ ~result.hasSn THEN store
    ELSE LET text == extractTextFromWs(result)
             s1 == AfterReplace(result, store)
         IN IF text # <<>> THEN MapSet(s1, result.sn, text)
            ELSE DeleteRange(s1, result.sn, result.sn)

\* the store aggregateText leaves behind
aggregateStore(result, store) ==
    IF result.isNull \/ ~result.hasSn THEN store
    ELSE LET text == extractTextFromWs(result)
             s1 == AfterReplace(result, store)
         IN IF text # <<>> THEN MapSet(s1, result.sn, text) ELSE s1

\* the string aggregateText returns
aggregateText(result, store) ==
    IF result.isNull THEN Render(store)
    ELSE IF ~result.hasSn THEN Render(store) \o extractTextFromWs(result)
    ELSE Render(aggregateStore(result, store))

----------------------------------------------------------------------------
(* Events and values of a WebSocket session *)

CloseTimeout == 4000    \* socket.close(4000, "timeout")
CloseNormal == 1000     \* socket.close(1000), and the close code that resolves

\* close codes a close event can carry
CloseCodes == {CloseNormal, 1006, CloseTimeout}

\* an inbound message: parseOk is JSON.parse (and the reads of the payload)
\* not throwing; hasCode is payload.code being a number
MkMsg(parseOk, hasCode, code, status, result) ==
    [parseOk |-> parseOk, hasCode |-> hasCode, code |-> code,
     status |-> status, result |-> result]

NoMsg == MkMsg(TRUE, FALSE, 0, 0, NullResult)

MkEvent(type, msg, code, sendFail) ==
    [type |-> type, msg |-> msg, closeCode |-> code, sendFail |-> sendFail]

NoOutcome == [state |-> "pending", text |-> <<>>, error |-> "none"]

\* the session variables while no session exists
SessIdle ==
    /\ kind = "none"
    /\ ready = "CLOSED"
    /\ opened = FALSE
    /\ settled = FALSE
    /\ timer = "cleared"
    /\ resolves = 0
    /\ rejects = 0
    /\ outcome = NoOutcome
    /\ closeCalls = <<>>
    /\ sent = <<>>
    /\ msgCount = 0
    /\ errCount = 0
    /\ lastEvent = MkEvent("none", NoMsg, 0, 0)
    /\ legacyLog = <<>>

\* the accumulator-only variables while a session runs
AccIdle ==
    /\ accLast = NullResult
    /\ accCount = 0
    /\ permInputs = {}
    /\ permPending = {}

\* null, and the values that are not strings
NULL == "<null>"

NotAString == "<not a string>"

NoHandshake == [signed |-> FALSE, date |-> NULL, authorization |-> <<>>, wsUrl |-> <<>>]

NoResponse == [status |-> 0, error |-> NULL, text |-> <<>>]

\* the request variables while no request is handled
PostIdle ==
    /\ pc = "idle"
    /\ audioBase64 = NULL
    /\ user = NULL
    /\ appId = NULL
    /\ apiKey = NULL
    /\ apiSecret = NULL
    /\ handshake = NoHandshake
    /\ response = NoResponse
    /\ aborted = FALSE

CaptureIds == 1..MaxStarts

\* the hook variables while no hook instance is exercised
HookIdle ==
    /\ supported = FALSE
    /\ listening = FALSE
    /\ processing = FALSE
    /\ hookError = NULL
    /\ mediaStreamRef = 0
    /\ audioContextRef = 0
    /\ processorRef = 0
    /\ audioChunks = 0
    /\ captures = 0
    /\ startTask = [i \in CaptureIds |-> "none"]
    /\ stream = [i \in CaptureIds |-> "none"]
    /\ context = [i \in CaptureIds |-> "none"]
    /\ processor = [i \in CaptureIds |-> "none"]
    /\ tasks = <<>>

\* the variables no session handler touches
outside == <<accLast, accCount, permInputs, permPending, postVars, hookVars, dspVars,
            credVars, probeVars, pairVars>>

\* no concurrent requests are looked at
PairIdle ==
    /\ sessions = <<>>
    /\ WebSocketCtor = NULL

\* the key test variables while no key is tested
ProbeIdle ==
    /\ probePc = "idle"
    /\ probeAppId = NULL
    /\ probeApiKey = NULL
    /\ probeApiSecret = NULL
    /\ probeHandshake = NoHandshake
    /\ probeAnswer = NULL

\* the credential inputs while no credentials step is looked at
CredIdle ==
    /\ processEnv = <<>>
    /\ userSecrets = <<>>
    /\ storeThrows = FALSE

\* what resampled and pcm hold before the functions have run
NotRun == [done |-> FALSE, samples |-> <<>>]

\* what they hold afterwards
Ran(samples) == [done |-> TRUE, samples |-> samples]

\* the encoding variables while nothing is encoded
DspIdle ==
    /\ data = <<>>
    /\ inputSampleRate = 0
    /\ targetSampleRate = 0
    /\ resampled = NotRun
    /\ reads = {}
    /\ floats = <<>>
    /\ pcm = NotRun

\* readyState after socket.close(...)
AfterCloseCall(r) == IF r \in {"CONNECTING", "OPEN"} THEN "CLOSING" ELSE r

\* a promise keeps its first settlement
Settle(o, state, text, error) ==
    IF o.state = "pending" THEN [state |-> state, text |-> text, error |-> error] ELSE o

\* the frames of the open handler: data frame (status 0), end frame (status 2)
DataFrame(k) == [status |-> 0, audio |-> IF k = "bridge" THEN "audioBase64" ELSE ""]

EndFrame == [status |-> 2, audio |-> ""]

\* variant: the end frame is sent first
FramesSentEndFirst(k, sendFail) ==
    IF sendFail = 1 THEN <<>>
    ELSE IF sendFail = 2 THEN <<EndFrame>>
    ELSE <<EndFrame, DataFrame(k)>>

\* frames handed to socket.send when the sendFail-th send throws (0: none)
FramesSent(k, sendFail) ==
    IF sendFail = 1 THEN <<>>
    ELSE IF sendFail = 2 THEN <<DataFrame(k)>>
    ELSE <<DataFrame(k), EndFrame>>

----------------------------------------------------------------------------
(* The session of the speech route (bridge) *)

\* variant: the timer is left running
ClearTimeoutKeeps(t) == t

\* clearTimeout(timeout)
ClearTimeout(t) == IF t = "pending" THEN "cleared" ELSE t

SessInit ==
    /\ kind \in {"bridge", "probe"}
    /\ ready = "CONNECTING"
    /\ opened = FALSE
    /\ settled = FALSE
    /\ timer = "pending"
    /\ resolves = 0
    /\ rejects = 0
    /\ outcome = NoOutcome
    /\ closeCalls = <<>>
    /\ sent = <<>>
    /\ msgCount = 0
    /\ errCount = 0
    /\ lastEvent = MkEvent("create", NoMsg, 0, 0)
    /\ legacyLog = <<>>
    /\ accumulated = <<>>
    /\ finalText = <<>>
    /\ AccIdle
    /\ PostIdle
    /\ HookIdle
    /\ DspIdle
    /\ CredIdle
    /\ ProbeIdle
    /\ PairIdle

\* mutant: abort rejects without closing the socket
abortNoClose(error, r) ==
    IF settled
    THEN /\ ready' = r
         /\ UNCHANGED <<settled, timer, closeCalls, rejects, outcome>>
    ELSE /\ settled' = TRUE
         /\ timer' = ClearTimeout(timer)
         /\ closeCalls' = closeCalls
         /\ ready' = r
         /\ rejects' = rejects + 1
         /\ outcome' = Settle(outcome, "rejected", <<>>, error)

\* const abort = (error) => {...}, called with the socket in readyState r
abort(error, r) ==
    IF settled
    THEN /\ ready' = r
         /\ UNCHANGED <<settled, timer, closeCalls, rejects, outcome>>
    ELSE /\ settled' = TRUE
         /\ timer' = ClearTimeout(timer)
         /\ closeCalls' = Append(closeCalls, <<>>)
         /\ ready' = AfterCloseCall(r)
         /\ rejects' = rejects + 1
         /\ outcome' = Settle(outcome, "rejected", <<>>, error)

\* the setTimeout callback, 25000 ms after the session was created
BridgeTimeout ==
    /\ kind = "bridge"
    /\ timer = "pending"
    /\ timer' = "fired"
    /\ lastEvent' = MkEvent("timeout", NoMsg, 0, 0)
    /\ IF ~settled
       THEN /\ settled' = TRUE
            /\ closeCalls' = Append(closeCalls, <<CloseTimeout>>)
            /\ ready' = AfterCloseCall(ready)
            /\ rejects' = rejects + 1
            /\ outcome' = Settle(outcome, "rejected", <<>>, "Timeout")
       ELSE UNCHANGED <<settled, closeCalls, ready, rejects, outcome>>
    /\ UNCHANGED <<kind, opened, resolves, sent, msgCount, errCount,
                   accumulated, finalText, legacyLog, outside>>

\* variant: a connection error on an unsettled session opens a new connection
BridgeErrorReconnects ==
    /\ kind = "bridge"
    /\ ready # "CLOSED"
    /\ errCount < MaxErrors
    /\ errCount' = errCount + 1
    /\ lastEvent' = MkEvent("error", NoMsg, 0, 0)
    /\ IF settled
       THEN UNCHANGED <<ready, opened>>
       ELSE /\ ready' = "CONNECTING"
            /\ opened' = FALSE
    /\ UNCHANGED <<kind, settled, timer, closeCalls, rejects, outcome, resolves, sent,
                   msgCount, accumulated, finalText, legacyLog, outside>>

\* socket.on("error"); ws has left CONNECTING/OPEN when it emits error
BridgeError ==
    /\ kind = "bridge"
    /\ ready # "CLOSED"
    /\ errCount < MaxErrors
    /\ errCount' = errCount + 1
    /\ lastEvent' = MkEvent("error", NoMsg, 0, 0)
    /\ abort("ConnectionError", "CLOSING")
    /\ UNCHANGED <<kind, opened, resolves, sent, msgCount,
                   accumulated, finalText, legacyLog, outside>>

\* mutant: the timer guards the handshake only and is cleared on open
BridgeOpenClearsTimer(sendFail) ==
    /\ kind = "bridge"
    /\ ready = "CONNECTING"
    /\ opened' = TRUE
    /\ lastEvent' = MkEvent("open", NoMsg, 0, sendFail)
    /\ sent' = sent \o FramesSent(kind, sendFail)
    /\ IF sendFail # 0
       THEN abort("SendFailure", "OPEN")
       ELSE /\ ready' = "OPEN"
            /\ timer' = ClearTimeout(timer)
            /\ UNCHANGED <<settled, closeCalls, rejects, outcome>>
    /\ UNCHANGED <<kind, resolves, msgCount, errCount,
                   accumulated, finalText, legacyLog, outside>>

\* socket.on("open"): two sends; the sendFail-th one throws (0: none does)
BridgeOpen(sendFail) ==
    /\ kind = "bridge"
    /\ ready = "CONNECTING"
    /\ opened' = TRUE
    /\ lastEvent' = MkEvent("open", NoMsg, 0, sendFail)
    /\ sent' = sent \o FramesSent(kind, sendFail)
    /\ IF sendFail # 0
       THEN abort("SendFailure", "OPEN")
       ELSE /\ ready' = "OPEN"
            /\ UNCHANGED <<settled, timer, closeCalls, rejects, outcome>>
    /\ UNCHANGED <<kind, resolves, msgCount, errCount,
                   accumulated, finalText, legacyLog, outside>>

\* non-empty texts applied without a sequence number to an unsettled session
LegacyLogAfter(m) ==
    IF m.parseOk /\ (IF m.hasCode THEN m.code ELSE 0) = 0 /\ ~settled
       /\ ~m.result.isNull /\ ~m.result.hasSn
       /\ extractTextFromWs(m.result) # <<>>
    THEN Append(legacyLog, extractTextFromWs(m.result))
    ELSE legacyLog

\* mutant: the status check runs before the result is applied
BridgeMessageStale(m) ==
    /\ kind = "bridge"
    /\ opened
    /\ ready \in {"OPEN", "CLOSING"}
    /\ msgCount < MaxMsgs
    /\ msgCount' = msgCount + 1
    /\ lastEvent' = MkEvent("message", m, 0, 0)
    /\ IF ~m.parseOk
       THEN /\ abort("ParseError", ready)
            /\ UNCHANGED <<resolves, accumulated, finalText>>
       ELSE IF (IF m.hasCode THEN m.code ELSE 0) # 0
       THEN /\ abort("UpstreamError", ready)
            /\ UNCHANGED <<resolves, accumulated, finalText>>
       ELSE /\ accumulated' = aggregateStore(m.result, accumulated)
            /\ finalText' = IF m.result.isNull THEN finalText
                            ELSE aggregateText(m.result, accumulated)
            /\ IF m.status = 2 /\ ~settled
               THEN /\ settled' = TRUE
                    /\ timer' = ClearTimeout(timer)
                    /\ closeCalls' = Append(closeCalls, <<CloseNormal>>)
                    /\ ready' = AfterCloseCall(ready)
                    /\ resolves' = resolves + 1
                    /\ outcome' = Settle(outcome, "resolved", Trim(finalText), "none")
                    /\ UNCHANGED rejects
               ELSE UNCHANGED <<settled, timer, closeCalls, ready, resolves,
                                rejects, outcome>>
    /\ legacyLog' = LegacyLogAfter(m)
    /\ UNCHANGED <<kind, opened, sent, errCount, outside>>

\* socket.on("message")
BridgeMessage(m) ==
    /\ kind = "bridge"
    /\ opened
    /\ ready \in {"OPEN", "CLOSING"}
    /\ msgCount < MaxMsgs
    /\ msgCount' = msgCount + 1
    /\ lastEvent' = MkEvent("message", m, 0, 0)
    /\ IF ~m.parseOk
       THEN /\ abort("ParseError", ready)
            /\ UNCHANGED <<resolves, accumulated, finalText>>
       ELSE IF (IF m.hasCode THEN m.code ELSE 0) # 0
       THEN /\ abort("UpstreamError", ready)
            /\ UNCHANGED <<resolves, accumulated, finalText>>
       ELSE /\ accumulated' = aggregateStore(m.result, accumulated)
            /\ finalText' = IF m.result.isNull THEN finalText
                            ELSE aggregateText(m.result, accumulated)
            /\ IF m.status = 2 /\ ~settled
               THEN /\ settled' = TRUE
                    /\ timer' = ClearTimeout(timer)
                    /\ closeCalls' = Append(closeCalls, <<CloseNormal>>)
                    /\ ready' = AfterCloseCall(ready)
                    /\ resolves' = resolves + 1
                    /\ outcome' = Settle(outcome, "resolved", Trim(finalText'), "none")
                    /\ UNCHANGED rejects
               ELSE UNCHANGED <<settled, timer, closeCalls, ready, resolves,
                                rejects, outcome>>
    /\ legacyLog' = LegacyLogAfter(m)
    /\ UNCHANGED <<kind, opened, sent, errCount, outside>>

\* mutant: an abnormal closure (1006) is taken for a normal one
IsNormalClosureLoose(code) == code \in {CloseNormal, 1006}

\* code === 1000
IsNormalClosure(code) == code = CloseNormal

\* mutant: the close handler without its "if (settled) return"
BridgeCloseUnguarded(code) ==
    /\ kind = "bridge"
    /\ ready # "CLOSED"
    /\ ready' = "CLOSED"
    /\ lastEvent' = MkEvent("close", NoMsg, code, 0)
    /\ settled' = TRUE
    /\ timer' = ClearTimeout(timer)
    /\ IF IsNormalClosure(code)
       THEN /\ resolves' = resolves + 1
            /\ outcome' = Settle(outcome, "resolved", Trim(finalText), "none")
            /\ UNCHANGED rejects
       ELSE /\ rejects' = rejects + 1
            /\ outcome' = Settle(outcome, "rejected", <<>>, "ConnectionClosed")
            /\ UNCHANGED resolves
    /\ UNCHANGED <<kind, opened, closeCalls, sent, msgCount, errCount,
                   accumulated, finalText, legacyLog, outside>>

\* socket.on("close")
BridgeClose(code) ==
    /\ kind = "bridge"
    /\ ready # "CLOSED"
    /\ ready' = "CLOSED"
    /\ lastEvent' = MkEvent("close", NoMsg, code, 0)
    /\ IF settled
       THEN UNCHANGED <<settled, timer, resolves, rejects, outcome>>
       ELSE /\ settled' = TRUE
            /\ timer' = ClearTimeout(timer)
            /\ IF IsNormalClosure(code)
               THEN /\ resolves' = resolves + 1
                    /\ outcome' = Settle(outcome, "resolved", Trim(finalText), "none")
                    /\ UNCHANGED rejects
               ELSE /\ rejects' = rejects + 1
                    /\ outcome' = Settle(outcome, "rejected", <<>>, "ConnectionClosed")
                    /\ UNCHANGED resolves
    /\ UNCHANGED <<kind, opened, closeCalls, sent, msgCount, errCount,
                   accumulated, finalText, legacyLog, outside>>

----------------------------------------------------------------------------
(* The session of the key test route (probe, testXfyunKey) *)

\* the setTimeout callback, 12000 ms after the session was created
ProbeTimeout ==
    /\ kind = "probe"
    /\ timer = "pending"
    /\ timer' = "fired"
    /\ lastEvent' = MkEvent("timeout", NoMsg, 0, 0)
    /\ IF settled
       THEN UNCHANGED <<settled, closeCalls, ready, rejects, outcome>>
       ELSE /\ settled' = TRUE
            /\ closeCalls' = Append(closeCalls, <<CloseTimeout>>)
            /\ ready' = AfterCloseCall(ready)
            /\ rejects' = rejects + 1
            /\ outcome' = Settle(outcome, "rejected", <<>>, "Timeout")
    /\ UNCHANGED <<kind, opened, resolves, sent, msgCount, errCount,
                   accumulated, finalText, legacyLog, outside>>

\* socket.on("error"): settles without closing the socket
ProbeError ==
    /\ kind = "probe"
    /\ ready # "CLOSED"
    /\ errCount < MaxErrors
    /\ errCount' = errCount + 1
    /\ lastEvent' = MkEvent("error", NoMsg, 0, 0)
    /\ ready' = "CLOSING"
    /\ IF settled
       THEN UNCHANGED <<settled, timer, rejects, outcome>>
       ELSE /\ settled' = TRUE
            /\ timer' = ClearTimeout(timer)
            /\ rejects' = rejects + 1
            /\ outcome' = Settle(outcome, "rejected", <<>>, "ConnectionError")
    /\ UNCHANGED <<kind, opened, resolves, closeCalls, sent, msgCount,
                   accumulated, finalText, legacyLog, outside>>

\* socket.on("open"): two sends of empty audio; the sendFail-th one throws
ProbeOpen(sendFail) ==
    /\ kind = "probe"
    /\ ready = "CONNECTING"
    /\ ready' = "OPEN"
    /\ opened' = TRUE
    /\ lastEvent' = MkEvent("open", NoMsg, 0, sendFail)
    /\ sent' = sent \o FramesSent(kind, sendFail)
    /\ IF sendFail # 0 /\ ~settled
       THEN /\ settled' = TRUE
            /\ timer' = ClearTimeout(timer)
            /\ rejects' = rejects + 1
            /\ outcome' = Settle(outcome, "rejected", <<>>, "SendFailure")
       ELSE UNCHANGED <<settled, timer, rejects, outcome>>
    /\ UNCHANGED <<kind, resolves, closeCalls, msgCount, errCount,
                   accumulated, finalText, legacyLog, outside>>

\* variant: the probe waits for the last result (status 2) before it succeeds
ProbeMessageWaitsForLast(m) ==
    /\ kind = "probe"
    /\ opened
    /\ ready \in {"OPEN", "CLOSING"}
    /\ msgCount < MaxMsgs
    /\ msgCount' = msgCount + 1
    /\ lastEvent' = MkEvent("message", m, 0, 0)
    /\ IF ~m.parseOk
       THEN UNCHANGED <<settled, timer, closeCalls, ready, resolves, rejects, outcome>>
       ELSE IF m.hasCode /\ m.code # 0
       THEN IF ~settled
            THEN /\ settled' = TRUE
                 /\ timer' = ClearTimeout(timer)
                 /\ rejects' = rejects + 1
                 /\ outcome' = Settle(outcome, "rejected", <<>>, "UpstreamError")
                 /\ UNCHANGED <<closeCalls, ready, resolves>>
            ELSE UNCHANGED <<settled, timer, closeCalls, ready, resolves,
                             rejects, outcome>>
       ELSE IF ~settled /\ m.hasCode /\ m.code = 0 /\ m.status = 2
       THEN /\ settled' = TRUE
            /\ timer' = ClearTimeout(timer)
            /\ closeCalls' = Append(closeCalls, <<CloseNormal>>)
            /\ ready' = AfterCloseCall(ready)
            /\ resolves' = resolves + 1
            /\ outcome' = Settle(outcome, "resolved", <<>>, "none")
            /\ UNCHANGED rejects
       ELSE UNCHANGED <<settled, timer, closeCalls, ready, resolves, rejects, outcome>>
    /\ UNCHANGED <<kind, opened, sent, errCount, accumulated, finalText, legacyLog, outside>>

\* socket.on("message"): a parse failure is ignored
ProbeMessage(m) ==
    /\ kind = "probe"
    /\ opened
    /\ ready \in {"OPEN", "CLOSING"}
    /\ msgCount < MaxMsgs
    /\ msgCount' = msgCount + 1
    /\ lastEvent' = MkEvent("message", m, 0, 0)
    /\ IF ~m.parseOk
       THEN UNCHANGED <<settled, timer, closeCalls, ready, resolves, rejects, outcome>>
       ELSE IF m.hasCode /\ m.code # 0
       THEN IF ~settled
            THEN /\ settled' = TRUE
                 /\ timer' = ClearTimeout(timer)
                 /\ rejects' = rejects + 1
                 /\ outcome' = Settle(outcome, "rejected", <<>>, "UpstreamError")
                 /\ UNCHANGED <<closeCalls, ready, resolves>>
            ELSE UNCHANGED <<settled, timer, closeCalls, ready, resolves,
                             rejects, outcome>>
       ELSE IF ~settled /\ m.hasCode /\ m.code = 0
       THEN /\ settled' = TRUE
            /\ timer' = ClearTimeout(timer)
            /\ closeCalls' = Append(closeCalls, <<CloseNormal>>)
            /\ ready' = AfterCloseCall(ready)
            /\ resolves' = resolves + 1
            /\ outcome' = Settle(outcome, "resolved", <<>>, "none")
            /\ UNCHANGED rejects
       ELSE UNCHANGED <<settled, timer, closeCalls, ready, resolves, rejects, outcome>>
    /\ UNCHANGED <<kind, opened, sent, errCount, accumulated, finalText, legacyLog, outside>>

\* socket.on("close"): code 1000 or 0 resolves
ProbeClose(code) ==
    /\ kind = "probe"
    /\ ready # "CLOSED"
    /\ ready' = "CLOSED"
    /\ lastEvent' = MkEvent("close", NoMsg, code, 0)
    /\ IF settled
       THEN UNCHANGED <<settled, timer, resolves, rejects, outcome>>
       ELSE /\ settled' = TRUE
            /\ timer' = ClearTimeout(timer)
            /\ IF code = CloseNormal \/ code = 0
               THEN /\ resolves' = resolves + 1
                    /\ outcome' = Settle(outcome, "resolved", <<>>, "none")
                    /\ UNCHANGED rejects
               ELSE /\ rejects' = rejects + 1
                    /\ outcome' = Settle(outcome, "rejected", <<>>, "ConnectionClosed")
                    /\ UNCHANGED resolves
    /\ UNCHANGED <<kind, opened, closeCalls, sent, msgCount, errCount,
                   accumulated, finalText, legacyLog, outside>>

----------------------------------------------------------------------------
(* Inbound traffic of a session *)

SessWs == {<<>>, <<<<"a">>>>, <<<<"b", " ">>>>}

\* results of a session: legacy (no sn), appends and replacements of sn 1, 2
SessResults ==
    {NullResult}
    \cup {MkResult(FALSE, 0, "none", FALSE, <<0, 0>>, ws) : ws \in SessWs}
    \cup {MkResult(TRUE, sn, "apd", FALSE, <<0, 0>>, ws) : sn \in {1, 2}, ws \in SessWs}
    \cup {MkResult(TRUE, sn, "rpl", TRUE, <<1, 2>>, ws) : sn \in {1, 2}, ws \in SessWs}

\* non-zero codes of the upstream
ErrorCodes == {10165}

BridgeMessages ==
    {MkMsg(TRUE, TRUE, 0, st, r) : st \in {1, 2}, r \in SessResults}
    \cup {MkMsg(TRUE, FALSE, 0, st, r) :
            st \in {1, 2}, r \in {NullResult, MkResult(TRUE, 1, "apd", FALSE, <<0, 0>>, <<<<"a">>>>)}}
    \cup {MkMsg(TRUE, TRUE, c, st, r) :
            c \in ErrorCodes, st \in {1, 2}, r \in {NullResult, MkResult(TRUE, 1, "apd", FALSE, <<0, 0>>, <<<<"a">>>>)}}
    \cup {MkMsg(FALSE, FALSE, 0, 0, NullResult)}

ProbeMessages ==
    {MkMsg(TRUE, TRUE, c, st, NullResult) : c \in {0} \cup ErrorCodes, st \in {1, 2}}
    \cup {MkMsg(TRUE, FALSE, 0, 1, NullResult), MkMsg(FALSE, FALSE, 0, 0, NullResult)}

SessNext ==
    \/ BridgeTimeout
    \/ BridgeError
    \/ \E f \in 0..2 : BridgeOpen(f)
    \/ \E m \in BridgeMessages : BridgeMessage(m)
    \/ \E c \in CloseCodes : BridgeClose(c)
    \/ ProbeTimeout
    \/ ProbeError
    \/ \E f \in 0..2 : ProbeOpen(f)
    \/ \E m \in ProbeMessages : ProbeMessage(m)
    \/ \E c \in CloseCodes : ProbeClose(c)

Spec == SessInit /\ [][SessNext]_vars

----------------------------------------------------------------------------
(* The accumulator exercised alone: any result, in any order *)

SnValues == 1..MaxSn

Words == {<<"a">>, <<"b">>, <<"c">>}

\* word lists: no word, one word, or a word list whose words are all empty
WsValues == {<<>>} \cup {<<w>> : w \in Words}

RangeValues == SnValues \X SnValues

AccResults ==
    {MkResult(TRUE, sn, pgs, FALSE, <<0, 0>>, ws) :
        sn \in SnValues, pgs \in {"none", "apd", "rpl"}, ws \in WsValues}
    \cup {MkResult(TRUE, sn, pgs, TRUE, rg, ws) :
        sn \in SnValues, pgs \in {"apd", "rpl"}, rg \in RangeValues, ws \in WsValues}
    \cup {MkResult(FALSE, 0, pgs, FALSE, <<0, 0>>, ws) :
        pgs \in {"none", "rpl"}, ws \in WsValues}
    \cup {MkResult(FALSE, 0, "rpl", TRUE, rg, ws) :
        rg \in RangeValues, ws \in WsValues}

AccInit ==
    /\ accumulated = <<>>
    /\ finalText = <<>>
    /\ accLast = NullResult
    /\ accCount = 0
    /\ permInputs = {}
    /\ permPending = {}
    /\ SessIdle
    /\ PostIdle
    /\ HookIdle
    /\ DspIdle
    /\ CredIdle
    /\ ProbeIdle
    /\ PairIdle

\* finalText = aggregateText(result, accumulated)
AccApply(r) ==
    /\ accCount < MaxApply
    /\ accumulated' = aggregateStore(r, accumulated)
    /\ finalText' = aggregateText(r, accumulated)
    /\ accLast' = r
    /\ accCount' = accCount + 1
    /\ UNCHANGED <<permInputs, permPending, sessVars, postVars, hookVars, dspVars, credVars, probeVars, pairVars>>

AccNext == \E r \in AccResults : AccApply(r)

AccSpec == AccInit /\ [][AccNext]_vars

----------------------------------------------------------------------------
(* The accumulator fed one set of append results in every order *)

PermSn == 1..PermMaxSn

AppendShapes == [pgs : {"none", "apd"}, ws : WsValues]

\* sets of append results with pairwise distinct sequence numbers
PermInputSets ==
    UNION {{{MkResult(TRUE, sn, f[sn].pgs, FALSE, <<0, 0>>, f[sn].ws) : sn \in S} :
                f \in [S -> AppendShapes]} : S \in SUBSET PermSn}

PermInit ==
    /\ accumulated = <<>>
    /\ finalText = <<>>
    /\ accLast = NullResult
    /\ accCount = 0
    /\ permInputs \in PermInputSets
    /\ permPending = permInputs
    /\ SessIdle
    /\ PostIdle
    /\ HookIdle
    /\ DspIdle
    /\ CredIdle
    /\ ProbeIdle
    /\ PairIdle

\* finalText = aggregateText(result, accumulated), for a result not applied yet
PermApply(r) ==
    /\ r \in permPending
    /\ accumulated' = aggregateStore(r, accumulated)
    /\ finalText' = aggregateText(r, accumulated)
    /\ accLast' = r
    /\ accCount' = accCount + 1
    /\ permPending' = permPending \ {r}
    /\ UNCHANGED <<permInputs, sessVars, postVars, hookVars, dspVars, credVars, probeVars, pairVars>>

PermNext == \E r \in permPending : PermApply(r)

PermSpec == PermInit /\ [][PermNext]_vars

\* the store after the results of rs are applied in ascending sequence number
RECURSIVE ApplyAscending(_, _)
ApplyAscending(rs, store) ==
    IF rs = {} THEN store
    ELSE LET r == CHOOSE x \in rs : \A y \in rs : x.sn <= y.sn
         IN ApplyAscending(rs \ {r}, aggregateStore(r, store))

----------------------------------------------------------------------------
(* Claims on the accumulator *)

InRange(k, rg) == rg[1] <= k /\ k <= rg[2]

\* C7: a replaceRange result with range [a,b] (and a sequence number) removes
\* exactly the stored fragments with a <= k <= b, then stores its text at its
\* sequence number if the text is non-empty; with empty text it only deletes.
\* After {sn:1,a},{sn:2,b},{sn:2,rpl [2,2],c} the render is "ac".
C7_ReplaceRange ==
    [][LET r == accLast'
           text == extractTextFromWs(r)
           old == MapKeys(accumulated)
           new == MapKeys(accumulated')
       IN (accCount' = accCount + 1 /\ ~r.isNull /\ r.hasSn
              /\ r.pgs = "rpl" /\ r.hasRg)
          => /\ \A k \in old :
                    InRange(k, r.rg) /\ ~(k = r.sn /\ text # <<>>) => k \notin new
             /\ \A k \in old :
                    ~InRange(k, r.rg) /\ k # r.sn =>
                        k \in new /\ MapGet(accumulated', k) = MapGet(accumulated, k)
             /\ new \subseteq old \cup {r.sn}
             /\ text # <<>> => r.sn \in new /\ MapGet(accumulated', r.sn) = text
             /\ text = <<>> =>
                    /\ new = {k \in old : ~InRange(k, r.rg)}
                    /\ \A k \in new : MapGet(accumulated', k) = MapGet(accumulated, k)
             /\ finalText' = Render(accumulated')
             /\ (accumulated = <<[k |-> 1, v |-> <<"a">>], [k |-> 2, v |-> <<"b">>]>>
                 /\ r = MkResult(TRUE, 2, "rpl", TRUE, <<2, 2>>, <<<<"c">>>>))
                    => finalText' = <<"a", "c">>
      ]_vars

\* C7 witness: the example of the claim has run: a, b, then c replacing [2,2]
C7_Witness ==
    /\ accCount = 3
    /\ accLast = MkResult(TRUE, 2, "rpl", TRUE, <<2, 2>>, <<<<"c">>>>)
    /\ accumulated = <<[k |-> 1, v |-> <<"a">>], [k |-> 2, v |-> <<"c">>]>>
    /\ finalText = <<"a", "c">>

\* C8: append results with pairwise distinct sequence numbers render the same
\* transcript in whatever order they were applied: the one of ascending order.
C8_OrderIndependent ==
    (permPending = {} /\ permInputs # {}) =>
        /\ finalText = Render(ApplyAscending(permInputs, <<>>))
        /\ Render(accumulated) = Render(ApplyAscending(permInputs, <<>>))

\* C8 witness: all of three results applied, a later sequence number first
C8_Witness ==
    /\ permPending = {}
    /\ Len(accumulated) = 3
    /\ accumulated[1].k > accumulated[2].k
    /\ finalText # <<>>

----------------------------------------------------------------------------
(* One request of the speech route: POST /api/speech/xfyun *)

MaxEnvSet == 3      \* environment variables that are set at once
PostMaxMsgs == 1    \* message events of the session of a modelled request

XFYUN_HOST == "iat-api.xfyun.cn"

XFYUN_PATH == "/v2/iat"

XFYUN_SCHEME == "wss"

\* !v of JavaScript for v a string, null or undefined
Falsy(v) == v = NULL \/ v = ""

\* a ?? b ?? ... : the first value that is not null
RECURSIVE Coalesce(_)
Coalesce(vs) ==
    IF vs = <<>> THEN NULL
    ELSE IF Head(vs) # NULL THEN Head(vs) ELSE Coalesce(Tail(vs))

AppIdEnvNames ==
    <<"XFYUN_APP_ID", "NEXT_PUBLIC_XFYUN_APP_ID", "IFLYTEK_APP_ID",
      "NEXT_PUBLIC_IFLYTEK_APP_ID">>

ApiKeyEnvNames ==
    <<"XFYUN_API_KEY", "NEXT_PUBLIC_XFYUN_API_KEY", "IFLYTEK_API_KEY",
      "NEXT_PUBLIC_IFLYTEK_API_KEY">>

ApiSecretEnvNames ==
    <<"XFYUN_API_SECRET", "IFLYTEK_API_SECRET", "NEXT_PUBLIC_XFYUN_API_SECRET",
      "NEXT_PUBLIC_IFLYTEK_API_SECRET">>

Range(f) == {f[i] : i \in DOMAIN f}

EnvNames == Range(AppIdEnvNames) \cup Range(ApiKeyEnvNames) \cup Range(ApiSecretEnvNames)

\* process.env: at most MaxEnvSet names are set, to "" or to a value (written
\* as the name itself); the others are undefined
EnvConfigs ==
    UNION {{[n \in EnvNames |-> IF n \in S THEN (IF n \in E THEN "" ELSE n) ELSE NULL] :
                E \in SUBSET S} :
            S \in {T \in SUBSET EnvNames : Cardinality(T) <= MaxEnvSet}}

SecretKeys == {"xfyunAppSecret", "xfyunAppId", "xfyunApiKey"}

\* what getDecryptedUserSecret returns per key: null, "" or the secret
\* the decrypted secret the store holds for a key
StoredSecret(k) ==
    CASE k = "xfyunAppSecret" -> "user's xfyunAppSecret"
      [] k = "xfyunAppId" -> "user's xfyunAppId"
      [] k = "xfyunApiKey" -> "user's xfyunApiKey"

SecretConfigs ==
    {[k \in SecretKeys |-> IF f[k] = "stored" THEN StoredSecret(k) ELSE f[k]] :
        f \in [SecretKeys -> {NULL, "", "stored"}]}

\* the value a key has after the user block (lines 408-421): the user's secret
\* when there is a user, no read threw and the secret is truthy
UserValue(u, secrets, threw, key) ==
    IF u # NULL /\ ~threw /\ ~Falsy(secrets[key]) THEN secrets[key] ELSE NULL

\* variant: the environment is asked first
WithEnvFallbackEnvFirst(value, env, names) ==
    Coalesce([i \in DOMAIN names |-> env[names[i]]] \o <<value>>)

\* appId = appId ?? process.env.A ?? process.env.B ...
WithEnvFallback(value, env, names) ==
    Coalesce(<<value>> \o [i \in DOMAIN names |-> env[names[i]]])

\* mutant: the test leaves out appId
MissingCredentialNoAppId(a, k, sec) == Falsy(k) \/ Falsy(sec)

\* !appId || !apiKey || !apiSecret
MissingCredential(a, k, sec) == Falsy(a) \/ Falsy(k) \/ Falsy(sec)

\* method.toUpperCase(), for the methods used
ToUpperCase(method) ==
    CASE method = "get" -> "GET"
      [] method = "post" -> "POST"
      [] OTHER -> method

\* signatureOrigin, signatureSha and the base64 of authorizationOrigin
buildAuthorization(key, secret, method, path, date, host) ==
    [encoding |-> "base64",
     api_key |-> key,
     algorithm |-> "hmac-sha256",
     headers |-> "host date request-line",
     signature |-> [encoding |-> "base64", hmac |-> "sha256", secret |-> secret,
                    origin |-> <<"host: ", host, "\n", "date: ", date, "\n",
                                 ToUpperCase(method), " ", path, " HTTP/1.1">>]]

Dates == {"Wed, 04 Nov 2026 01:00:00 GMT"}

PostInit ==
    /\ pc = "start"
    /\ audioBase64 \in {NULL, "", NotAString, "audio"}
    /\ user = NULL
    /\ appId = NULL
    /\ apiKey = NULL
    /\ apiSecret = NULL
    /\ handshake = NoHandshake
    /\ response = NoResponse
    /\ aborted = FALSE
    /\ accumulated = <<>>
    /\ finalText = <<>>
    /\ AccIdle
    /\ SessIdle
    /\ HookIdle
    /\ DspIdle
    /\ CredIdle
    /\ ProbeIdle
    /\ PairIdle

Respond(status, error, text) == [status |-> status, error |-> error, text |-> text]

\* lines 381-388: the body is read and audioBase64 tested
PostValidate ==
    /\ pc = "start"
    /\ IF Falsy(audioBase64) \/ audioBase64 = NotAString
       THEN /\ response' = Respond(400, "INVALID_REQUEST", <<>>)
            /\ pc' = "done"
       ELSE /\ pc' = "auth"
            /\ UNCHANGED response
    /\ UNCHANGED <<aborted, audioBase64, user, appId, apiKey, apiSecret, handshake,
                   accVars, sessVars, hookVars, dspVars, credVars, probeVars, pairVars>>

\* lines 393-401: supabase.auth.getUser(); a throw reaches the outer catch
PostAuth(u, throws) ==
    /\ pc = "auth"
    /\ IF throws
       THEN /\ response' = Respond(500, "INTERNAL_ERROR", <<>>)
            /\ pc' = "done"
            /\ UNCHANGED user
       ELSE /\ user' = u
            /\ pc' = "creds"
            /\ UNCHANGED response
    /\ UNCHANGED <<aborted, audioBase64, appId, apiKey, apiSecret, handshake,
                   accVars, sessVars, hookVars, dspVars, credVars, probeVars, pairVars>>

\* lines 403-444: user secrets, environment fallback, NOT_CONFIGURED
PostCredentials(secrets, threw, env) ==
    /\ pc = "creds"
    /\ LET a == WithEnvFallback(UserValue(user, secrets, threw, "xfyunAppId"),
                                env, AppIdEnvNames)
           k == WithEnvFallback(UserValue(user, secrets, threw, "xfyunApiKey"),
                                env, ApiKeyEnvNames)
           sec == WithEnvFallback(UserValue(user, secrets, threw, "xfyunAppSecret"),
                                  env, ApiSecretEnvNames)
       IN /\ appId' = a
          /\ apiKey' = k
          /\ apiSecret' = sec
          /\ IF MissingCredential(a, k, sec)
             THEN /\ response' = Respond(503, "NOT_CONFIGURED", <<>>)
                  /\ pc' = "done"
             ELSE /\ pc' = "sign"
                  /\ UNCHANGED response
    /\ UNCHANGED <<aborted, audioBase64, user, handshake, accVars, sessVars, hookVars, dspVars, credVars, probeVars, pairVars>>

\* lines 446-459: dateHeader, authorization, wsUrl
PostSign(date) ==
    /\ pc = "sign"
    /\ LET auth == buildAuthorization(apiKey, apiSecret, "GET", XFYUN_PATH, date,
                                      XFYUN_HOST)
       IN handshake' =
            [signed |-> TRUE, date |-> date, authorization |-> auth,
             wsUrl |-> <<XFYUN_SCHEME, "://", XFYUN_HOST, XFYUN_PATH,
                         "?authorization=", [uri |-> auth],
                         "&date=", [uri |-> date], "&host=", [uri |-> XFYUN_HOST]>>]
    /\ pc' = "connect"
    /\ UNCHANGED <<aborted, audioBase64, user, appId, apiKey, apiSecret, response,
                   accVars, sessVars, hookVars, dspVars, credVars, probeVars, pairVars>>

\* lines 461-487: accumulated, finalText, new WebSocket(wsUrl), settled, timer
PostConnect ==
    /\ pc = "connect"
    /\ pc' = "session"
    /\ accumulated' = <<>>
    /\ finalText' = <<>>
    /\ kind' = "bridge"
    /\ ready' = "CONNECTING"
    /\ opened' = FALSE
    /\ settled' = FALSE
    /\ timer' = "pending"
    /\ resolves' = 0
    /\ rejects' = 0
    /\ outcome' = NoOutcome
    /\ closeCalls' = <<>>
    /\ sent' = <<>>
    /\ msgCount' = 0
    /\ errCount' = 0
    /\ lastEvent' = MkEvent("create", NoMsg, 0, 0)
    /\ legacyLog' = <<>>
    /\ UNCHANGED <<aborted, audioBase64, user, appId, apiKey, apiSecret, handshake, response,
                   accLast, accCount, permInputs, permPending, hookVars, dspVars, credVars, probeVars, pairVars>>

\* variant: a rejected session answered with a code of its own
PostRespondUpstreamCode ==
    /\ pc = "session"
    /\ outcome.state # "pending"
    /\ pc' = "done"
    /\ response' =
         IF outcome.state = "rejected" THEN Respond(502, "UPSTREAM_ERROR", <<>>)
         ELSE IF outcome.text = <<>> THEN Respond(422, "EMPTY_TRANSCRIPT", <<>>)
         ELSE Respond(200, NULL, outcome.text)
    /\ UNCHANGED <<aborted, audioBase64, user, appId, apiKey, apiSecret, handshake,
                   accVars, sessVars, hookVars, dspVars, credVars, probeVars, pairVars>>

\* lines 604-622: the promise has settled
PostRespond ==
    /\ pc = "session"
    /\ outcome.state # "pending"
    /\ pc' = "done"
    /\ response' =
         IF outcome.state = "rejected" THEN Respond(500, "INTERNAL_ERROR", <<>>)
         ELSE IF outcome.text = <<>> THEN Respond(422, "EMPTY_TRANSCRIPT", <<>>)
         ELSE Respond(200, NULL, outcome.text)
    /\ UNCHANGED <<aborted, audioBase64, user, appId, apiKey, apiSecret, handshake,
                   accVars, sessVars, hookVars, dspVars, credVars, probeVars, pairVars>>

\* the caller cancels the request or disconnects while it is handled: the
\* handler reads request only at line 381 and registers nothing on
\* request.signal, so nothing of the handler runs
PostCancel ==
    /\ pc \in {"auth", "creds", "sign", "connect", "session"}
    /\ ~aborted
    /\ aborted' = TRUE
    /\ UNCHANGED <<pc, audioBase64, user, appId, apiKey, apiSecret, handshake, response,
                   accVars, sessVars, hookVars, dspVars, credVars, probeVars, pairVars>>

\* inbound traffic of the request's session
PostMessages ==
    {MkMsg(TRUE, TRUE, 0, 2, MkResult(TRUE, 1, "apd", FALSE, <<0, 0>>, <<<<"a">>>>)),
     MkMsg(TRUE, TRUE, 0, 2, NullResult),
     MkMsg(TRUE, TRUE, 10165, 1, NullResult)}

\* the credentials step, for every secret store and environment
PostResolveCredentials ==
    /\ pc = "creds"
    /\ \E secrets \in SecretConfigs, threw \in BOOLEAN, env \in EnvConfigs :
            PostCredentials(secrets, threw, env)

\* a message event of the request's session
PostInbound ==
    /\ msgCount < PostMaxMsgs
    /\ \E m \in PostMessages : BridgeMessage(m)

PostNext ==
    \/ PostValidate
    \/ \E u \in {NULL, "user-1"}, throws \in BOOLEAN : PostAuth(u, throws)
    \/ PostResolveCredentials
    \/ \E d \in Dates : PostSign(d)
    \/ PostConnect
    \/ BridgeTimeout
    \/ BridgeError
    \/ \E f \in 0..2 : BridgeOpen(f)
    \/ PostInbound
    \/ \E c \in CloseCodes : BridgeClose(c)
    \/ PostRespond
    \/ PostCancel

PostSpec == PostInit /\ [][PostNext]_vars

----------------------------------------------------------------------------
(* Claims on the sessions *)

\* the timers are node timers: a pending one fires once its delay has passed
LiveSpec == Spec /\ WF_vars(BridgeTimeout) /\ WF_vars(ProbeTimeout)

\* the message the step just taken has handled
HandledMessage == lastEvent'.type = "message" /\ msgCount' = msgCount + 1

CodeOf(m) == IF m.hasCode THEN m.code ELSE 0

\* C1: resolve and reject of a session are called at most once in total,
\* for the bridge and for the probe, whatever the order of the events.
C1_SettledOnce == resolves + rejects <= 1

\* C1 witness: a session rejected by its timer has then seen its close event
C1_Witness ==
    /\ lastEvent.type = "close"
    /\ ready = "CLOSED"
    /\ outcome.error = "Timeout"
    /\ rejects = 1

\* C2: the timer of an unsettled session force-closes the socket (code 4000)
\* and rejects with Timeout, and every session is eventually settled.
C2_Timeout ==
    /\ [][(timer = "pending" /\ timer' = "fired") =>
            /\ ~settled /\ settled'
            /\ closeCalls' = Append(closeCalls, <<CloseTimeout>>)
            /\ ready' # "OPEN" /\ ready' # "CONNECTING"
            /\ outcome'.state = "rejected" /\ outcome'.error = "Timeout"
            /\ rejects' = rejects + 1 /\ resolves' = resolves]_vars
    /\ <>settled

\* C2 witness: an open session that got only non-terminal messages timed out
C2_Witness ==
    /\ opened
    /\ msgCount >= 1
    /\ lastEvent.type = "timeout"
    /\ outcome.state = "rejected"
    /\ outcome.error = "Timeout"
    /\ closeCalls = <<<<CloseTimeout>>>>

\* C3: a message with code # 0 reaching an unsettled bridge session rejects it
\* with the upstream error, closes the socket and leaves the accumulator as it
\* was, also when the message carries status 2.
C3_UpstreamError ==
    [][LET m == lastEvent'.msg
       IN (HandledMessage /\ kind = "bridge" /\ ~settled
              /\ m.parseOk /\ CodeOf(m) # 0)
          => /\ settled'
             /\ outcome' = [state |-> "rejected", text |-> <<>>, error |-> "UpstreamError"]
             /\ rejects' = rejects + 1
             /\ resolves' = resolves
             /\ closeCalls' = Append(closeCalls, <<>>)
             /\ ready' = "CLOSING"
             /\ accumulated' = accumulated
             /\ finalText' = finalText
      ]_vars

\* C3 witness: an error message carrying status 2 and a result was rejected
C3_Witness ==
    /\ kind = "bridge"
    /\ lastEvent.type = "message"
    /\ CodeOf(lastEvent.msg) # 0
    /\ lastEvent.msg.status = 2
    /\ ~lastEvent.msg.result.isNull
    /\ outcome.error = "UpstreamError"
    /\ msgCount >= 2

\* C4: a message with code 0 and status 2 reaching an unsettled bridge session
\* resolves it with the trimmed transcript taken after the message's own
\* result was applied, and closes the socket with code 1000.
C4_StatusTwo ==
    [][LET m == lastEvent'.msg
       IN (HandledMessage /\ kind = "bridge" /\ ~settled
              /\ m.parseOk /\ CodeOf(m) = 0 /\ m.status = 2)
          => /\ settled'
             /\ outcome'.state = "resolved"
             /\ outcome'.text = Trim(finalText')
             /\ ~m.result.isNull =>
                    /\ finalText' = aggregateText(m.result, accumulated)
                    /\ accumulated' = aggregateStore(m.result, accumulated)
             /\ (~m.result.isNull /\ m.result.hasSn) =>
                    outcome'.text = Trim(Render(accumulated'))
             /\ m.result.isNull => finalText' = finalText
             /\ resolves' = resolves + 1
             /\ rejects' = rejects
             /\ closeCalls' = Append(closeCalls, <<CloseNormal>>)
      ]_vars

\* C4 witness: the status-2 message changed the transcript it resolved with
C4_Witness ==
    /\ kind = "bridge"
    /\ lastEvent.type = "message"
    /\ lastEvent.msg.status = 2
    /\ lastEvent.msg.result.hasSn
    /\ lastEvent.msg.result.sn = 2
    /\ msgCount >= 2
    /\ outcome.state = "resolved"
    /\ outcome.text = <<"a", "b">>
    /\ finalText = <<"a", "b", " ">>
    /\ closeCalls = <<<<CloseNormal>>>>

\* C5: a close event reaching an unsettled bridge session resolves it with the
\* text accumulated so far when the code is 1000 and rejects it with
\* ConnectionClosed for any other code.
C5_Close ==
    [][(lastEvent'.type = "close" /\ ready # "CLOSED" /\ ready' = "CLOSED"
          /\ kind = "bridge" /\ ~settled)
          => /\ settled'
             /\ IF lastEvent'.closeCode = CloseNormal
                THEN /\ outcome' = [state |-> "resolved", text |-> Trim(finalText),
                                    error |-> "none"]
                     /\ resolves' = resolves + 1 /\ rejects' = rejects
                ELSE /\ outcome' = [state |-> "rejected", text |-> <<>>,
                                    error |-> "ConnectionClosed"]
                     /\ rejects' = rejects + 1 /\ resolves' = resolves
      ]_vars

\* C5 witness: a normal close resolved an open session with accumulated text
C5_Witness ==
    /\ kind = "bridge"
    /\ lastEvent.type = "close"
    /\ lastEvent.closeCode = CloseNormal
    /\ outcome.state = "resolved"
    /\ outcome.text # <<>>
    /\ closeCalls = <<>>

\* t occurs in s as a subsequence
RECURSIVE ContainsInOrder(_, _)
ContainsInOrder(s, t) ==
    IF t = <<>> THEN TRUE
    ELSE IF s = <<>> THEN FALSE
    ELSE IF Head(s) = Head(t) THEN ContainsInOrder(Tail(s), Tail(t))
    ELSE ContainsInOrder(Tail(s), t)

\* C9: the texts of the results without a sequence number applied in a session
\* are kept in a running concatenation: after two or more of them the
\* transcript the session resolves with contains them, in their order.
C9_LegacyConcatenation ==
    (kind = "bridge" /\ outcome.state = "resolved" /\ Len(legacyLog) >= 2) =>
        ContainsInOrder(outcome.text, Trim(Join(legacyLog)))

----------------------------------------------------------------------------
(* Claims on the request handling of the speech route *)

\* C6: when appId, apiKey or apiSecret is absent after the credentials were
\* resolved, the request ends with NOT_CONFIGURED (503), and for such a request
\* no handshake is signed, no socket is created and no frame is sent.
C6_NotConfigured ==
    /\ [][(pc = "creds" /\ pc' # "creds"
            /\ (Falsy(appId') \/ Falsy(apiKey') \/ Falsy(apiSecret')))
          => /\ pc' = "done"
             /\ response'.error = "NOT_CONFIGURED"
             /\ response'.status = 503]_vars
    /\ [](response.error = "NOT_CONFIGURED" =>
            /\ pc = "done"
            /\ Falsy(appId) \/ Falsy(apiKey) \/ Falsy(apiSecret)
            /\ ~handshake.signed
            /\ kind = "none"
            /\ ready = "CLOSED"
            /\ sent = <<>>)
    /\ [](pc \in {"sign", "connect", "session"} =>
            ~(Falsy(appId) \/ Falsy(apiKey) \/ Falsy(apiSecret)))

\* C6 witness: a request with key and secret but no appId ended NOT_CONFIGURED
C6_Witness ==
    /\ pc = "done"
    /\ response.error = "NOT_CONFIGURED"
    /\ Falsy(appId)
    /\ ~Falsy(apiKey)
    /\ ~Falsy(apiSecret)

----------------------------------------------------------------------------
(* The useSpeechRecognition hook: capture life cycle *)

\* the resources cleanupResources works on
Resources ==
    [processor |-> processor, processorRef |-> processorRef,
     context |-> context, audioContextRef |-> audioContextRef,
     stream |-> stream, mediaStreamRef |-> mediaStreamRef]

\* cleanupResources as far as it runs before its await: the processor node is
\* disconnected, and either audioContext.close() is called and awaited, or
\* (no audio context) the tracks of the stream in the ref are stopped
CleanupBegin(r) ==
    LET r1 == IF r.processorRef # 0
              THEN [r EXCEPT !.processor[r.processorRef] = "disconnected",
                             !.processorRef = 0]
              ELSE r
    IN IF r1.audioContextRef # 0
       THEN [r1 EXCEPT !.context[r1.audioContextRef] = "closing"]
       ELSE IF r1.mediaStreamRef # 0
       THEN [r1 EXCEPT !.stream[r1.mediaStreamRef] = "stopped", !.mediaStreamRef = 0]
       ELSE r1

\* whether cleanupResources, begun on r, waits for audioContext.close()
CleanupWaits(r) == r.audioContextRef # 0

\* cleanupResources after the await of the close of context c: the refs are
\* read again
CleanupFinish(r, c) ==
    LET r1 == [r EXCEPT !.context[c] = "closed", !.audioContextRef = 0]
    IN IF r1.mediaStreamRef # 0
       THEN [r1 EXCEPT !.stream[r1.mediaStreamRef] = "stopped", !.mediaStreamRef = 0]
       ELSE r1

SetResources(r) ==
    /\ processor' = r.processor
    /\ processorRef' = r.processorRef
    /\ context' = r.context
    /\ audioContextRef' = r.audioContextRef
    /\ stream' = r.stream
    /\ mediaStreamRef' = r.mediaStreamRef

MkTask(type, at, chunks, ctx) ==
    [type |-> type, pc |-> at, chunks |-> chunks, ctx |-> ctx]

StopsMade == Cardinality({i \in DOMAIN tasks : tasks[i].type = "stop"})

HookInit ==
    /\ supported \in BOOLEAN
    /\ listening = FALSE
    /\ processing = FALSE
    /\ hookError = NULL
    /\ mediaStreamRef = 0
    /\ audioContextRef = 0
    /\ processorRef = 0
    /\ audioChunks = 0
    /\ captures = 0
    /\ startTask = [i \in CaptureIds |-> "none"]
    /\ stream = [i \in CaptureIds |-> "none"]
    /\ context = [i \in CaptureIds |-> "none"]
    /\ processor = [i \in CaptureIds |-> "none"]
    /\ tasks = <<>>
    /\ accumulated = <<>>
    /\ finalText = <<>>
    /\ AccIdle
    /\ SessIdle
    /\ PostIdle
    /\ DspIdle
    /\ CredIdle
    /\ ProbeIdle
    /\ PairIdle

notHook == <<accVars, sessVars, postVars, dspVars, credVars, probeVars, pairVars>>

\* startListening(): the guards, then getUserMedia is called
StartListening ==
    /\ supported => (listening \/ processing \/ captures < MaxStarts)
    /\ IF ~supported
       THEN /\ hookError' = "unsupported"
            /\ UNCHANGED <<captures, startTask>>
       ELSE IF listening \/ processing
       THEN UNCHANGED <<hookError, captures, startTask>>
       ELSE /\ hookError' = NULL
            /\ captures' = captures + 1
            /\ startTask' = [startTask EXCEPT ![captures + 1] = "gum"]
    /\ UNCHANGED <<supported, listening, processing, mediaStreamRef, audioContextRef,
                   processorRef, audioChunks, stream, context, processor, tasks,
                   notHook>>

\* getUserMedia of capture id resolves and the body of startListening runs on;
\* failure: "none", "context" (new AudioContext throws) or "graph" (a node
\* cannot be created or connected, after the context was created)
GumResolve(id, failure) ==
    /\ startTask[id] = "gum"
    /\ startTask' = [startTask EXCEPT ![id] = "done"]
    /\ IF failure = "none"
       THEN /\ stream' = [stream EXCEPT ![id] = "live"]
            /\ context' = [context EXCEPT ![id] = "open"]
            /\ processor' = [processor EXCEPT ![id] = "connected"]
            /\ audioChunks' = 0
            /\ audioContextRef' = id
            /\ mediaStreamRef' = id
            /\ processorRef' = id
            /\ listening' = TRUE
            /\ UNCHANGED <<hookError, tasks>>
       ELSE LET r0 == [Resources EXCEPT
                          !.stream[id] = "live",
                          !.context[id] = IF failure = "graph" THEN "open" ELSE "none"]
            IN /\ hookError' = "capture failed"
               /\ SetResources(CleanupBegin(r0))
               /\ tasks' = IF CleanupWaits(r0)
                           THEN Append(tasks, MkTask("start", "closing", 0, r0.audioContextRef))
                           ELSE tasks
               /\ UNCHANGED <<listening, audioChunks>>
    /\ UNCHANGED <<supported, processing, captures, notHook>>

\* getUserMedia of capture id rejects: the catch block
GumReject(id) ==
    /\ startTask[id] = "gum"
    /\ startTask' = [startTask EXCEPT ![id] = "done"]
    /\ hookError' = "capture failed"
    /\ SetResources(CleanupBegin(Resources))
    /\ tasks' = IF CleanupWaits(Resources)
                THEN Append(tasks, MkTask("start", "closing", 0, audioContextRef))
                ELSE tasks
    /\ UNCHANGED <<supported, listening, processing, audioChunks, captures, notHook>>

\* processor.onaudioprocess of capture id
AudioProcess(id) ==
    /\ processor[id] = "connected"
    /\ context[id] = "open"
    /\ audioChunks < MaxChunks
    /\ audioChunks' = audioChunks + 1
    /\ UNCHANGED <<supported, listening, processing, hookError, mediaStreamRef,
                   audioContextRef, processorRef, captures, startTask, stream,
                   context, processor, tasks, notHook>>

\* variant: stopListening without the test of chunks.length
AfterCleanupNoEmptyTest(type, n, ctx) ==
    IF type = "start" THEN MkTask(type, "done", n, ctx)
    ELSE MkTask(type, "fetch", n, ctx)

\* the body of stopListening after "await cleanupResources()", for a stop that
\* took n chunks: EmptyCapture, or the request is sent
AfterCleanup(type, n, ctx) ==
    IF type = "start" THEN MkTask(type, "done", n, ctx)
    ELSE IF n = 0 THEN MkTask(type, "done", n, ctx)
    ELSE MkTask(type, "fetch", n, ctx)

\* stopListening(): the guard, setListening(false), the chunks are taken and
\* cleanupResources is called
StopListening ==
    /\ ~(~listening /\ mediaStreamRef = 0)
    /\ StopsMade < MaxStops
    /\ listening' = FALSE
    /\ audioChunks' = 0
    /\ SetResources(CleanupBegin(Resources))
    /\ IF CleanupWaits(Resources)
       THEN /\ tasks' = Append(tasks, MkTask("stop", "closing", audioChunks, audioContextRef))
            /\ UNCHANGED <<processing, hookError>>
       ELSE /\ tasks' = Append(tasks, AfterCleanup("stop", audioChunks, 0))
            /\ processing' = IF audioChunks = 0 THEN processing ELSE TRUE
            /\ hookError' = IF audioChunks = 0 THEN "empty capture" ELSE NULL
    /\ UNCHANGED <<supported, captures, startTask, notHook>>

\* audioContext.close() awaited by task i has settled: cleanupResources runs
\* on, then the body that awaited it
TaskResume(i) ==
    /\ tasks[i].pc = "closing"
    /\ SetResources(CleanupFinish(Resources, tasks[i].ctx))
    /\ tasks' = [tasks EXCEPT ![i] = AfterCleanup(tasks[i].type, tasks[i].chunks, tasks[i].ctx)]
    /\ IF tasks[i].type = "stop"
       THEN /\ processing' = IF tasks[i].chunks = 0 THEN processing ELSE TRUE
            /\ hookError' = IF tasks[i].chunks = 0 THEN "empty capture" ELSE NULL
       ELSE UNCHANGED <<processing, hookError>>
    /\ UNCHANGED <<supported, listening, audioChunks, captures, startTask, notHook>>

\* the fetch of task i has ended: transcript or error, finally setProcessing(false)
FetchDone(i, ok) ==
    /\ tasks[i].pc = "fetch"
    /\ tasks' = [tasks EXCEPT ![i].pc = "done"]
    /\ processing' = FALSE
    /\ hookError' = IF ok THEN hookError ELSE "recognition failed"
    /\ UNCHANGED <<supported, listening, mediaStreamRef, audioContextRef, processorRef,
                   audioChunks, captures, startTask, stream, context, processor,
                   notHook>>

HookNext ==
    \/ StartListening
    \/ \E id \in CaptureIds, f \in {"none", "context", "graph"} : GumResolve(id, f)
    \/ \E id \in CaptureIds : GumReject(id)
    \/ \E id \in CaptureIds : AudioProcess(id)
    \/ StopListening
    \/ \E i \in DOMAIN tasks : TaskResume(i)
    \/ \E i \in DOMAIN tasks, ok \in BOOLEAN : FetchDone(i, ok)

HookSpec == HookInit /\ [][HookNext]_vars

----------------------------------------------------------------------------
(* Claims on the hook *)

LiveStreams == {i \in CaptureIds : stream[i] = "live"}

OpenContexts == {i \in CaptureIds : context[i] = "open"}

\* C10: one hook instance never holds two capture sessions: at no time are two
\* acquired microphone streams live or two audio contexts open.
C10_SingleCapture ==
    /\ Cardinality(LiveStreams) <= 1
    /\ Cardinality(OpenContexts) <= 1

\* no body of startListening or stopListening is still running and the hook
\* is not capturing
HookQuiet ==
    /\ ~listening
    /\ \A i \in CaptureIds : startTask[i] # "gum"
    /\ \A i \in DOMAIN tasks : tasks[i].pc # "closing"

\* C11: the microphone is released on every exit path: once a single capture
\* has ended (stopped, stopped empty, or failed during setup after its stream
\* was obtained) no stream has a running track and no audio context is open.
C11_ReleasedOnExit ==
    (captures = 1 /\ HookQuiet) => (LiveStreams = {} /\ OpenContexts = {})

----------------------------------------------------------------------------
(* Claims on the request, continued *)

FailureCodes == {"NOT_CONFIGURED", "EMPTY_TRANSCRIPT", "INVALID_REQUEST", "INTERNAL_ERROR"}

C13_Cancellation ==
    /\ [][(~aborted /\ aborted' /\ pc = "session" /\ ~settled)
          => Len(closeCalls') > Len(closeCalls)]_vars
    /\ [][(aborted /\ pc = "session" /\ ~settled) => msgCount' = msgCount]_vars

\* the frames of one request, in the order of the open handler
TwoFrames == <<DataFrame("bridge"), EndFrame>>

EmptyStopEnds(i) ==
    /\ i \in DOMAIN tasks'
    /\ tasks'[i].type = "stop"
    /\ tasks'[i].chunks = 0
    /\ tasks'[i].pc # "closing"
    /\ (i \in DOMAIN tasks => tasks[i].pc = "closing")

\* C15: a stopListening that finds no buffered chunk ends with the EmptyCapture
\* error after cleanupResources has run: the stream held in the ref is stopped
\* and the refs are cleared (with a single capture nothing stays live or open),
\* the body never reaches the encoding and the request, and it does not set
\* processing.
C15_EmptyCapture ==
    /\ [][\A i \in DOMAIN tasks' : EmptyStopEnds(i) =>
            /\ tasks'[i].pc = "done"
            /\ hookError' = "empty capture"
            /\ processing' = processing
            /\ mediaStreamRef' = 0
            /\ audioContextRef' = 0
            /\ (mediaStreamRef # 0 => stream'[mediaStreamRef] = "stopped")
            /\ (captures = 1 => (LiveStreams' = {} /\ OpenContexts' = {}))]_vars
    /\ [](\A i \in DOMAIN tasks :
            (tasks[i].type = "stop" /\ tasks[i].chunks = 0) => tasks[i].pc # "fetch")

\* C15 witness: a capture was acquired and stopped before any chunk arrived
C15_Witness ==
    /\ captures = 1
    /\ stream[1] = "stopped"
    /\ context[1] = "closed"
    /\ Len(tasks) = 1
    /\ tasks[1] = MkTask("stop", "done", 0, 1)
    /\ hookError = "empty capture"
    /\ ~processing

----------------------------------------------------------------------------
(* The audio encoding: resampleBuffer *)

\* longest input of resampleBuffer
MaxSamples == 4

TARGET_SAMPLE_RATE == 16000

InputRates == {8000, TARGET_SAMPLE_RATE, 32000, 44100, 48000}

TargetRates == {8000, TARGET_SAMPLE_RATE}

\* sample values of the inputs of resampleBuffer
ResampleValues == {-3, 5}

\* variant: the length is truncated
RoundedLengthFloor(L, inRate, outRate) == (L * outRate) \div inRate

\* Math.round(L / ratio) for ratio = inRate / outRate, in exact arithmetic:
\* Math.round rounds a half up
RoundedLength(L, inRate, outRate) == (2 * L * outRate + inRate) \div (2 * inRate)

\* const newLength = Math.round(data.length / ratio)
NewLength(L, inRate, outRate) == RoundedLength(L, inRate, outRate)

\* Math.floor(i * ratio)
LowerIndex(i, inRate, outRate) == (i * inRate) \div outRate

\* variant: the upper index without the Math.min
UpperIndexUnclamped(i, L, inRate, outRate) == LowerIndex(i, inRate, outRate) + 1

\* Math.min(lowerIndex + 1, data.length - 1)
UpperIndex(i, L, inRate, outRate) ==
    LET n == LowerIndex(i, inRate, outRate) + 1
    IN IF n < L - 1 THEN n ELSE L - 1

\* data[k] for a 0-based k; outside the array it is undefined
At(d, k) ==
    IF k + 1 \in DOMAIN d THEN [defined |-> TRUE, value |-> d[k + 1]]
    ELSE [defined |-> FALSE, value |-> 0]

\* lowerValue + (upperValue - lowerValue) * weight, weight = origin - lowerIndex,
\* as the fraction num / den; NaN when a value is undefined
Interpolate(d, i, inRate, outRate) ==
    LET lowerValue == At(d, LowerIndex(i, inRate, outRate))
        upperValue == At(d, UpperIndex(i, Len(d), inRate, outRate))
        w == (i * inRate) % outRate
    IN IF ~lowerValue.defined \/ ~upperValue.defined
       THEN [nan |-> TRUE, num |-> 0, den |-> 1]
       ELSE [nan |-> FALSE,
             num |-> lowerValue.value * outRate
                        + (upperValue.value - lowerValue.value) * w,
             den |-> outRate]

\* resampleBuffer(data, inputSampleRate, targetSampleRate)
resampleBuffer(d, inRate, outRate) ==
    IF inRate = outRate THEN d
    ELSE [j \in 1..NewLength(Len(d), inRate, outRate) |->
            Interpolate(d, j - 1, inRate, outRate)]

\* the indices of data read by resampleBuffer
ResampleReads(d, inRate, outRate) ==
    IF inRate = outRate THEN {}
    ELSE UNION {{LowerIndex(j - 1, inRate, outRate),
                 UpperIndex(j - 1, Len(d), inRate, outRate)} :
                    j \in 1..NewLength(Len(d), inRate, outRate)}

ResampleInputs == UNION {[1..n -> ResampleValues] : n \in 0..MaxSamples}

ResampleInit ==
    /\ data \in ResampleInputs
    /\ inputSampleRate \in InputRates
    /\ targetSampleRate \in TargetRates
    /\ resampled = NotRun
    /\ reads = {}
    /\ floats = <<>>
    /\ pcm = NotRun
    /\ accumulated = <<>>
    /\ finalText = <<>>
    /\ AccIdle
    /\ SessIdle
    /\ PostIdle
    /\ HookIdle
    /\ CredIdle
    /\ ProbeIdle
    /\ PairIdle

\* stopListening, line 198: the merged samples are resampled
Resample ==
    /\ resampled = NotRun
    /\ resampled' = Ran(resampleBuffer(data, inputSampleRate, targetSampleRate))
    /\ reads' = ResampleReads(data, inputSampleRate, targetSampleRate)
    /\ UNCHANGED <<data, inputSampleRate, targetSampleRate, floats, pcm,
                   accVars, sessVars, postVars, hookVars, credVars, probeVars, pairVars>>

ResampleNext == Resample

ResampleSpec == ResampleInit /\ [][ResampleNext]_vars

\* C16: resampleBuffer returns round(L / r) samples, r = inputSampleRate /
\* targetSampleRate and a half rounded up as Math.round does: the length n is
\* the integer with n - 1/2 <= L / r < n + 1/2; for r = 1 it returns its input.
C16_ResampleLength ==
    resampled.done =>
        /\ 2 * Len(resampled.samples) * inputSampleRate - inputSampleRate
                <= 2 * Len(data) * targetSampleRate
        /\ 2 * Len(data) * targetSampleRate
                < 2 * Len(resampled.samples) * inputSampleRate + inputSampleRate
        /\ inputSampleRate = targetSampleRate => resampled.samples = data

\* C16 witness: three samples at 32000 Hz become two (1.5 is rounded up)
C16_Witness ==
    /\ resampled.done
    /\ Len(data) = 3
    /\ inputSampleRate = 32000
    /\ targetSampleRate = TARGET_SAMPLE_RATE
    /\ Len(resampled.samples) = 2

----------------------------------------------------------------------------
(* The audio encoding: floatTo16BitPCM *)

\* most samples given to floatTo16BitPCM
MaxFloats == 2

\* a sample is an integer m standing for the float m / One
One == 2^30

\* 0x8000 and 0x7fff
NegScale == 32768

PosScale == 32767

\* floor(m * c / One) for 0 <= m, 0 <= c <= NegScale, without a product
\* beyond 32 bits: m = hi * NegScale + lo and One = NegScale * NegScale
MulDivFloor(m, c) ==
    LET hi == m \div NegScale
        lo == m % NegScale
    IN (hi * c + (lo * c) \div NegScale) \div NegScale

\* the integer part of sample * c, which is what DataView.setInt16 keeps of
\* the product
TruncProduct(m, c) == IF m >= 0 THEN MulDivFloor(m, c) ELSE -MulDivFloor(-m, c)

\* setInt16: the value modulo 2^16, as a signed 16-bit integer
ToInt16(v) == ((v + NegScale) % (2 * NegScale)) - NegScale

\* Math.max(-1, Math.min(1, data[i]))
Clamp(m) == IF m > One THEN One ELSE IF m < -One THEN -One ELSE m

\* variant: one scale for both signs
QuantizeOneScale(m) == ToInt16(TruncProduct(Clamp(m), PosScale))

\* one sample: sample < 0 ? sample * 0x8000 : sample * 0x7fff, stored by setInt16
Quantize(m) ==
    LET sample == Clamp(m)
    IN ToInt16(TruncProduct(sample, IF sample < 0 THEN NegScale ELSE PosScale))

\* floatTo16BitPCM(data), as the 16-bit integers of its buffer
floatTo16BitPCM(d) == [i \in DOMAIN d |-> Quantize(d[i])]

\* samples: zero, the smallest steps, values about 1/32768, half scale, full
\* scale, and values beyond [-1, 1]; each has at most 24 significant bits
QuantValues ==
    {0, 1, -1, NegScale, NegScale + 1, -NegScale - 1, 2 * NegScale + 3,
     One \div 2, One \div 2 + 64, -(One \div 2 + 128), One - 64, -(One - 64),
     One, -One, 3 * (One \div 2), -3 * (One \div 2)}

QuantInputs == UNION {[1..n -> QuantValues] : n \in 1..MaxFloats}

QuantInit ==
    /\ floats \in QuantInputs
    /\ pcm = NotRun
    /\ data = <<>>
    /\ inputSampleRate = 0
    /\ targetSampleRate = 0
    /\ resampled = NotRun
    /\ reads = {}
    /\ accumulated = <<>>
    /\ finalText = <<>>
    /\ AccIdle
    /\ SessIdle
    /\ PostIdle
    /\ HookIdle
    /\ CredIdle
    /\ ProbeIdle
    /\ PairIdle

\* stopListening, line 199: the samples are quantized
QuantizeAll ==
    /\ ~pcm.done
    /\ pcm' = Ran(floatTo16BitPCM(floats))
    /\ UNCHANGED <<floats, data, inputSampleRate, targetSampleRate, resampled, reads,
                   accVars, sessVars, postVars, hookVars, credVars, probeVars, pairVars>>

QuantNext == QuantizeAll

QuantSpec == QuantInit /\ [][QuantNext]_vars

\* the distance between the sample m / One and the float the stored integer q
\* stands for (q / 32768 if q < 0, else q / 32767) is at most 1/32768
WithinNegStep(m, q) ==
    IF q < 0 THEN (m - q * NegScale <= NegScale /\ q * NegScale - m <= NegScale)
    ELSE LET d == (m - q * NegScale) * NegScale - m
         IN d <= PosScale * NegScale /\ -d <= PosScale * NegScale

\* the same distance is below 1/32767
WithinPosStep(m, q) ==
    IF q < 0 THEN (m - q * NegScale <= NegScale /\ q * NegScale - m <= NegScale)
    ELSE LET d == (m - q * NegScale) * NegScale - m
         IN d < One /\ -d < One

InUnitRange(m) == -One <= m /\ m <= One

\* C17, as stated: every sample in [-1, 1] is recovered from its stored
\* integer within 1/32768.
C17_RoundTrip ==
    pcm.done => \A i \in DOMAIN floats :
        InUnitRange(floats[i]) => WithinNegStep(floats[i], pcm.samples[i])

\* C17, corrected: every sample in [-1, 1] is recovered within 1/32768 when the
\* stored integer is negative and within less than 1/32767 otherwise.
C17_RoundTripStep ==
    pcm.done => \A i \in DOMAIN floats :
        InUnitRange(floats[i]) => WithinPosStep(floats[i], pcm.samples[i])

\* C17 witness: the sample 1/32768 + 2^-30 is stored as 0, which is farther
\* from it than 1/32768
C17_Witness ==
    /\ pcm.done
    /\ floats = <<NegScale + 1>>
    /\ pcm.samples = <<0>>
    /\ ~WithinNegStep(floats[1], pcm.samples[1])

----------------------------------------------------------------------------
(* Claims on the probe *)

\* the step just taken is the close event of the socket
HandledClose == lastEvent'.type = "close" /\ ready # "CLOSED" /\ ready' = "CLOSED"

\* C18: the probe sends frames with empty audio only; while it is unsettled,
\* a message with code 0 resolves it whatever its status, a close with code
\* 1000 resolves it, and a message with a non-zero code rejects it.
C18_ProbeSettles ==
    /\ [](kind = "probe" => \A i \in DOMAIN sent : sent[i].audio = "")
    /\ [][(kind = "probe" /\ ~settled /\ HandledMessage /\ lastEvent'.msg.parseOk
            /\ lastEvent'.msg.hasCode /\ lastEvent'.msg.code = 0)
          => (settled' /\ outcome'.state = "resolved" /\ resolves' = 1)]_vars
    /\ [][(kind = "probe" /\ ~settled /\ HandledClose
            /\ lastEvent'.closeCode = CloseNormal)
          => (settled' /\ outcome'.state = "resolved" /\ resolves' = 1)]_vars
    /\ [][(kind = "probe" /\ ~settled /\ HandledMessage /\ lastEvent'.msg.parseOk
            /\ lastEvent'.msg.hasCode /\ lastEvent'.msg.code # 0)
          => (settled' /\ outcome'.state = "rejected" /\ rejects' = 1)]_vars

\* C18 witness: the first message of a probe, code 0 and status 1, resolved it
C18_Witness ==
    /\ kind = "probe"
    /\ msgCount = 1
    /\ lastEvent.type = "message"
    /\ lastEvent.msg.hasCode
    /\ lastEvent.msg.code = 0
    /\ lastEvent.msg.status = 1
    /\ outcome.state = "resolved"
    /\ Len(sent) = 2

----------------------------------------------------------------------------
(* The credentials step on its own *)

\* most names set in process.env
MaxCredEnv == 2

CredEnvConfigs ==
    UNION {{[n \in EnvNames |-> IF n \in S THEN (IF n \in E THEN "" ELSE n) ELSE NULL] :
                E \in SUBSET S} :
            S \in {T \in SUBSET EnvNames : Cardinality(T) <= MaxCredEnv}}

CredInit ==
    /\ pc = "creds"
    /\ audioBase64 = "audio"
    /\ user \in {NULL, "user-1"}
    /\ processEnv \in CredEnvConfigs
    /\ userSecrets \in SecretConfigs
    /\ storeThrows \in BOOLEAN
    /\ appId = NULL
    /\ apiKey = NULL
    /\ apiSecret = NULL
    /\ handshake = NoHandshake
    /\ response = NoResponse
    /\ aborted = FALSE
    /\ accumulated = <<>>
    /\ finalText = <<>>
    /\ AccIdle
    /\ SessIdle
    /\ HookIdle
    /\ DspIdle
    /\ ProbeIdle
    /\ PairIdle

\* lines 403-444 on the secrets and the environment of the state
CredResolve == PostCredentials(userSecrets, storeThrows, processEnv)

CredNext == CredResolve

CredSpec == CredInit /\ [][CredNext]_vars

\* the first of the names that process.env defines, as its value, else null
RECURSIVE FirstDefined(_, _)
FirstDefined(e, names) ==
    IF names = <<>> THEN NULL
    ELSE IF e[Head(names)] # NULL THEN e[Head(names)]
    ELSE FirstDefined(e, Tail(names))

\* the user's store holds a value for key and it could be read
StoredFor(key) ==
    /\ user # NULL
    /\ ~storeThrows
    /\ userSecrets[key] # NULL
    /\ userSecrets[key] # ""

\* what the claim lets a credential be
Preferred(key, names) ==
    IF StoredFor(key) THEN userSecrets[key] ELSE FirstDefined(processEnv, names)

\* C19: each of appId, apiKey and apiSecret is the user's stored value when
\* there is one (a user, a non-empty stored secret, no failure of the store),
\* and otherwise the first value the process environment defines for it.
C19_Precedence ==
    pc # "creds" =>
        /\ appId = Preferred("xfyunAppId", AppIdEnvNames)
        /\ apiKey = Preferred("xfyunApiKey", ApiKeyEnvNames)
        /\ apiSecret = Preferred("xfyunAppSecret", ApiSecretEnvNames)

\* C19 witness: the user's appId won over XFYUN_APP_ID, and the key, which the
\* user has not stored, came from the environment
C19_Witness ==
    /\ pc # "creds"
    /\ StoredFor("xfyunAppId")
    /\ processEnv["XFYUN_APP_ID"] = "XFYUN_APP_ID"
    /\ appId = "user's xfyunAppId"
    /\ userSecrets["xfyunApiKey"] = NULL
    /\ apiKey = "NEXT_PUBLIC_XFYUN_API_KEY"

----------------------------------------------------------------------------
(* Claims on the sessions, continued *)

\* C20: once a bridge session has settled, no event changes its state: the
\* accumulator store and the final text keep their values, nothing is sent, no
\* close is issued, and the settlement stays as it is.
C20_IgnoredAfterSettlement ==
    [][(kind = "bridge" /\ settled)
        => UNCHANGED <<accumulated, finalText, sent, closeCalls, settled, timer,
                       resolves, rejects, outcome>>]_vars

\* C21: whatever settles a session other than the expiry of its timer clears
\* the timer in the same step; a settled session has no pending timer; and a
\* cleared timer never runs its callback. Bridge and probe alike.
C21_TimerCleared ==
    /\ [][(~settled /\ settled' /\ lastEvent'.type # "timeout")
          => timer' = "cleared"]_vars
    /\ [](settled => timer # "pending")
    /\ [][timer = "cleared" => (timer' = "cleared" /\ lastEvent'.type # "timeout")]_vars

\* C21 witness: a probe rejected by a non-zero code has its timer cleared
C21_Witness ==
    /\ kind = "probe"
    /\ settled
    /\ outcome.error = "UpstreamError"
    /\ timer = "cleared"

\* the step just taken is the open event of the socket
HandledOpen == lastEvent'.type = "open" /\ ~opened /\ opened'

\* C22: a bridge sends nothing before the open event; the open handler sends
\* the data frame (status 0, the request's audio) and then the end frame
\* (status 2, empty audio), nothing else and nothing later; a send that throws
\* aborts the session.
C22_FrameProtocol ==
    /\ []((kind = "bridge" /\ ~opened) => sent = <<>>)
    /\ [][(kind = "bridge" /\ HandledOpen /\ lastEvent'.sendFail = 0)
          => (sent' = TwoFrames /\ ~settled')]_vars
    /\ [][(kind = "bridge" /\ HandledOpen /\ lastEvent'.sendFail # 0)
          => /\ sent' = SubSeq(TwoFrames, 1, lastEvent'.sendFail - 1)
             /\ settled'
             /\ outcome'.state = "rejected"
             /\ Len(closeCalls') = 1]_vars
    /\ [][(kind = "bridge" /\ opened) => sent' = sent]_vars
    /\ [][(kind = "bridge" /\ sent' # sent) => HandledOpen]_vars

\* C22 witness: a bridge has sent both frames and later resolved
C22_Witness ==
    /\ kind = "bridge"
    /\ sent = TwoFrames
    /\ sent[1].status = 0
    /\ sent[1].audio = "audioBase64"
    /\ sent[2].status = 2
    /\ sent[2].audio = ""
    /\ outcome.state = "resolved"
    /\ msgCount >= 1

\* C23: a settled session, bridge or probe, never leaves its socket open: the
\* socket is closing or closed, or close was called on it.
C23_ClosedWhenSettled ==
    settled => (ready \in {"CLOSING", "CLOSED"} \/ closeCalls # <<>>)

----------------------------------------------------------------------------
(* Signing: the bridge and the key test *)

\* testXfyunKey: const host, path, scheme
ProbeHost == "iat-api.xfyun.cn"

ProbePath == "/v2/iat"

ProbeScheme == "wss"

\* variant: the key test ends its signatureOrigin with a newline
ProbeAuthorizationTrailingNewline(key, secret, date) ==
    [encoding |-> "base64",
     api_key |-> key,
     algorithm |-> "hmac-sha256",
     headers |-> "host date request-line",
     signature |-> [encoding |-> "base64", hmac |-> "sha256", secret |-> secret,
                    origin |-> <<"host: ", ProbeHost, "\n", "date: ", date, "\n",
                                 "GET", " ", ProbePath, " HTTP/1.1", "\n">>]]

\* testXfyunKey, lines 296-299: signatureOrigin, signatureSha,
\* authorizationOrigin, authorization
ProbeAuthorization(key, secret, date) ==
    [encoding |-> "base64",
     api_key |-> key,
     algorithm |-> "hmac-sha256",
     headers |-> "host date request-line",
     signature |-> [encoding |-> "base64", hmac |-> "sha256", secret |-> secret,
                    origin |-> <<"host: ", ProbeHost, "\n", "date: ", date, "\n",
                                 "GET", " ", ProbePath, " HTTP/1.1">>]]

\* testXfyunKey, lines 294-303: dateHeader, authorization, wsUrl
ProbeSign(date) ==
    /\ probePc = "sign"
    /\ probePc' = "connect"
    /\ LET auth == ProbeAuthorization(probeApiKey, probeApiSecret, date)
       IN probeHandshake' =
            [signed |-> TRUE, date |-> date, authorization |-> auth,
             wsUrl |-> <<ProbeScheme, "://", ProbeHost, ProbePath,
                         "?authorization=", [uri |-> auth],
                         "&date=", [uri |-> date], "&host=", [uri |-> ProbeHost]>>]
    /\ UNCHANGED <<probeAppId, probeApiKey, probeApiSecret, probeAnswer,
                   accVars, sessVars, postVars, hookVars, dspVars, credVars, pairVars>>

\* new Date(timestamp).toUTCString() at the times of the calls
SignDates == Dates \cup {"Wed, 04 Nov 2026 01:00:01 GMT"}

SignKeys == {"key-1", "key-2"}

SignSecrets == {"secret-1", "secret-2"}

SignInit ==
    /\ pc = "sign"
    /\ audioBase64 = "audio"
    /\ user = NULL
    /\ appId = "app-1"
    /\ apiKey \in SignKeys
    /\ apiSecret \in SignSecrets
    /\ handshake = NoHandshake
    /\ response = NoResponse
    /\ aborted = FALSE
    /\ probePc = "sign"
    /\ probeAppId = "app-1"
    /\ probeApiKey \in SignKeys
    /\ probeApiSecret \in SignSecrets
    /\ probeHandshake = NoHandshake
    /\ probeAnswer = NULL
    /\ accumulated = <<>>
    /\ finalText = <<>>
    /\ AccIdle
    /\ SessIdle
    /\ HookIdle
    /\ DspIdle
    /\ CredIdle
    /\ PairIdle

SignNext ==
    \/ \E d \in SignDates : PostSign(d)
    \/ \E d \in SignDates : ProbeSign(d)

SignSpec == SignInit /\ [][SignNext]_vars

\* the canonical string: host line, date line, request line, joined by
\* newlines, no newline at the end
CanonicalString(host, date, path) ==
    <<"host: ", host, "\n", "date: ", date, "\n", "GET", " ", path, " HTTP/1.1">>

\* C24: the bridge and the key test, given the same key, secret and date (host
\* and path are the same constants), derive the same canonical string, the same
\* authorization and the same URL; and each result is determined by those
\* inputs.
C24_SameSigning ==
    /\ (handshake.signed /\ probeHandshake.signed
            /\ apiKey = probeApiKey /\ apiSecret = probeApiSecret
            /\ handshake.date = probeHandshake.date)
        => /\ handshake.authorization.signature.origin
                = probeHandshake.authorization.signature.origin
           /\ handshake.authorization = probeHandshake.authorization
           /\ handshake.wsUrl = probeHandshake.wsUrl
    /\ handshake.signed =>
        /\ handshake.authorization.signature.origin
                = CanonicalString("iat-api.xfyun.cn", handshake.date, "/v2/iat")
        /\ handshake.authorization.api_key = apiKey
        /\ handshake.authorization.signature.secret = apiSecret
    /\ probeHandshake.signed =>
        /\ probeHandshake.authorization.signature.origin
                = CanonicalString("iat-api.xfyun.cn", probeHandshake.date, "/v2/iat")
        /\ probeHandshake.authorization.api_key = probeApiKey
        /\ probeHandshake.authorization.signature.secret = probeApiSecret

\* C24 witness: both have signed with the same key, secret and date
C24_Witness ==
    /\ handshake.signed
    /\ probeHandshake.signed
    /\ apiKey = probeApiKey
    /\ apiSecret = probeApiSecret
    /\ handshake.date = probeHandshake.date
    /\ handshake.wsUrl = probeHandshake.wsUrl

----------------------------------------------------------------------------
(* Claims on the accumulator, continued *)

\* the fragments of the keys k..top that the store holds, concatenated in
\* ascending order of the keys
RECURSIVE AscendingFrom(_, _, _)
AscendingFrom(store, k, top) ==
    IF k > top THEN <<>>
    ELSE (IF MapHas(store, k) THEN MapGet(store, k) ELSE <<>>)
            \o AscendingFrom(store, k + 1, top)

\* the result takes the append path of aggregateText: it has a sequence number
\* and is not a replacement with a range
IsAppend(r) == ~r.isNull /\ r.hasSn /\ ~(r.pgs = "rpl" /\ r.hasRg)

\* C25: after every apply of a result with a sequence number the text returned
\* is the concatenation of the stored fragments in ascending order of their
\* numbers; an append with text sets the fragment at its own number and changes
\* no other; an append without text, like a result without a number, leaves
\* the store as it was; and no number is stored twice.
C25_AccumulatorInvariant ==
    /\ [][accCount' = accCount + 1 =>
            LET r == accLast'
                text == extractTextFromWs(r)
            IN /\ (~r.isNull /\ r.hasSn) =>
                    finalText' = AscendingFrom(accumulated', 1, MaxSn)
               /\ (IsAppend(r) /\ text # <<>>) =>
                    /\ MapHas(accumulated', r.sn)
                    /\ MapGet(accumulated', r.sn) = text
                    /\ \A k \in SnValues \ {r.sn} :
                        /\ MapHas(accumulated', k) <=> MapHas(accumulated, k)
                        /\ MapHas(accumulated, k) =>
                                MapGet(accumulated', k) = MapGet(accumulated, k)
               /\ (IsAppend(r) /\ text = <<>>) => accumulated' = accumulated
               /\ (r.isNull \/ ~r.hasSn) => accumulated' = accumulated]_vars
    /\ [](\A i, j \in DOMAIN accumulated :
            accumulated[i].k = accumulated[j].k => i = j)

\* C25 witness: fragment 2 was stored before fragment 1, then fragment 2 was
\* overwritten; the text is in the order of the numbers
C25_Witness ==
    /\ accCount = 3
    /\ Len(accumulated) = 2
    /\ accumulated[1].k = 2
    /\ accumulated[2].k = 1
    /\ accLast.sn = 2
    /\ IsAppend(accLast)
    /\ finalText = accumulated[2].v \o accumulated[1].v
    /\ accumulated[1].v # accumulated[2].v


----------------------------------------------------------------------------
(* Two requests of the speech route served at the same time *)

MaxPairEvents == 3      \* timer and socket events per request

RequestIds == {1, 2}

\* a request that has not reached the route
NoSession ==
    [created |-> FALSE, ready |-> "CONNECTING", opened |-> FALSE, settled |-> FALSE,
     timer |-> "none", outcome |-> NoOutcome, closeCalls |-> <<>>, sent |-> <<>>,
     accumulated |-> <<>>, finalText |-> <<>>, inbound |-> <<>>, events |-> 0]

\* the locals of a POST call when its promise executor has run
NewSession == [NoSession EXCEPT !.created = TRUE, !.timer = "pending"]

\* getWebSocketCtor: the constructor is imported once and kept
getWebSocketCtor(ctor) == IF ctor = NULL THEN "ws" ELSE ctor

\* variant: one accumulator serves every request
StoreOfShared(ss, i) == ss[1].accumulated

\* the Map the handlers of request i close over
StoreOf(ss, i) == ss[i].accumulated

\* abort, on the locals s of a request
SessionAbort(s, error, r) ==
    IF s.settled THEN [s EXCEPT !.ready = r]
    ELSE [s EXCEPT !.settled = TRUE,
                   !.timer = ClearTimeout(s.timer),
                   !.closeCalls = Append(s.closeCalls, <<>>),
                   !.ready = AfterCloseCall(r),
                   !.outcome = Settle(s.outcome, "rejected", <<>>, error)]

\* the setTimeout callback
SessionTimeout(s) ==
    IF s.settled THEN [s EXCEPT !.timer = "fired"]
    ELSE [s EXCEPT !.timer = "fired",
                   !.settled = TRUE,
                   !.closeCalls = Append(s.closeCalls, <<CloseTimeout>>),
                   !.ready = AfterCloseCall(s.ready),
                   !.outcome = Settle(s.outcome, "rejected", <<>>, "Timeout")]

\* socket.on("open")
SessionOpen(s, sendFail) ==
    LET o == [s EXCEPT !.opened = TRUE,
                       !.sent = s.sent \o FramesSent("bridge", sendFail)]
    IN IF sendFail # 0 THEN SessionAbort(o, "SendFailure", "OPEN")
       ELSE [o EXCEPT !.ready = "OPEN"]

\* socket.on("message"), reading and writing the Map store
SessionMessage(s, m, store) ==
    LET h == [s EXCEPT !.inbound = Append(s.inbound, m)]
    IN IF ~m.parseOk THEN SessionAbort(h, "ParseError", h.ready)
       ELSE IF (IF m.hasCode THEN m.code ELSE 0) # 0
       THEN SessionAbort(h, "UpstreamError", h.ready)
       ELSE LET text == IF m.result.isNull THEN h.finalText
                        ELSE aggregateText(m.result, store)
                a == [h EXCEPT !.accumulated = aggregateStore(m.result, store),
                               !.finalText = text]
            IN IF m.status = 2 /\ ~a.settled
               THEN [a EXCEPT !.settled = TRUE,
                              !.timer = ClearTimeout(a.timer),
                              !.closeCalls = Append(a.closeCalls, <<CloseNormal>>),
                              !.ready = AfterCloseCall(a.ready),
                              !.outcome = Settle(a.outcome, "resolved", Trim(text), "none")]
               ELSE a

\* socket.on("close")
SessionClose(s, code) ==
    LET c == [s EXCEPT !.ready = "CLOSED"]
    IN IF c.settled THEN c
       ELSE [c EXCEPT !.settled = TRUE,
                      !.timer = ClearTimeout(c.timer),
                      !.outcome = IF IsNormalClosure(code)
                                  THEN Settle(c.outcome, "resolved", Trim(c.finalText), "none")
                                  ELSE Settle(c.outcome, "rejected", <<>>, "ConnectionClosed")]

\* an event of request i is counted
Counted(s) == [s EXCEPT !.events = s.events + 1]

PairInit ==
    /\ sessions = [i \in RequestIds |-> NoSession]
    /\ WebSocketCtor = NULL
    /\ accumulated = <<>>
    /\ finalText = <<>>
    /\ AccIdle
    /\ SessIdle
    /\ PostIdle
    /\ HookIdle
    /\ DspIdle
    /\ CredIdle
    /\ ProbeIdle

notPair == <<accVars, sessVars, postVars, hookVars, dspVars, credVars, probeVars>>

\* request i reaches "await getWebSocketCtor()" and creates its socket
PairCreate(i) ==
    /\ ~sessions[i].created
    /\ WebSocketCtor' = getWebSocketCtor(WebSocketCtor)
    /\ sessions' = [sessions EXCEPT ![i] = NewSession]
    /\ UNCHANGED notPair

\* an event of request i may be delivered
PairEvent(i) ==
    /\ sessions[i].created
    /\ sessions[i].events < MaxPairEvents

PairTimeout(i) ==
    /\ PairEvent(i)
    /\ sessions[i].timer = "pending"
    /\ sessions' = [sessions EXCEPT ![i] = Counted(SessionTimeout(sessions[i]))]
    /\ UNCHANGED <<WebSocketCtor, notPair>>

PairError(i) ==
    /\ PairEvent(i)
    /\ sessions[i].ready # "CLOSED"
    /\ sessions' = [sessions EXCEPT ![i] =
                        Counted(SessionAbort(sessions[i], "ConnectionError", "CLOSING"))]
    /\ UNCHANGED <<WebSocketCtor, notPair>>

PairOpen(i, sendFail) ==
    /\ PairEvent(i)
    /\ sessions[i].ready = "CONNECTING"
    /\ sessions' = [sessions EXCEPT ![i] = Counted(SessionOpen(sessions[i], sendFail))]
    /\ UNCHANGED <<WebSocketCtor, notPair>>

PairMessage(i, m) ==
    /\ PairEvent(i)
    /\ sessions[i].opened
    /\ sessions[i].ready \in {"OPEN", "CLOSING"}
    /\ sessions' = [sessions EXCEPT ![i] =
                        Counted(SessionMessage(sessions[i], m, StoreOf(sessions, i)))]
    /\ UNCHANGED <<WebSocketCtor, notPair>>

PairClose(i, code) ==
    /\ PairEvent(i)
    /\ sessions[i].ready # "CLOSED"
    /\ sessions' = [sessions EXCEPT ![i] = Counted(SessionClose(sessions[i], code))]
    /\ UNCHANGED <<WebSocketCtor, notPair>>

\* inbound messages of the two requests: a partial result, two final ones
\* (an append and a replacement), an error response
PairMessages ==
    {MkMsg(TRUE, TRUE, 0, 1, MkResult(TRUE, 1, "apd", FALSE, <<0, 0>>, <<<<"a">>>>)),
     MkMsg(TRUE, TRUE, 0, 2, MkResult(TRUE, 2, "apd", FALSE, <<0, 0>>, <<<<"b", " ">>>>)),
     MkMsg(TRUE, TRUE, 0, 2, MkResult(TRUE, 1, "rpl", TRUE, <<1, 2>>, <<<<"c">>>>)),
     MkMsg(TRUE, TRUE, 10165, 1, NullResult)}

PairNext ==
    \E i \in RequestIds :
        \/ PairCreate(i)
        \/ PairTimeout(i)
        \/ PairError(i)
        \/ \E f \in 0..1 : PairOpen(i, f)
        \/ \E m \in PairMessages : PairMessage(i, m)
        \/ \E c \in {CloseNormal, 1006} : PairClose(i, c)

PairSpec == PairInit /\ [][PairNext]_vars

\* the accumulator and the text a request holds after the messages ms, when
\* nothing but its own messages is applied
RECURSIVE OwnState(_)
OwnState(ms) ==
    IF ms = <<>> THEN [store |-> <<>>, text |-> <<>>]
    ELSE LET before == OwnState(SubSeq(ms, 1, Len(ms) - 1))
             m == ms[Len(ms)]
         IN IF ~m.parseOk \/ (IF m.hasCode THEN m.code ELSE 0) # 0 THEN before
            ELSE [store |-> aggregateStore(m.result, before.store),
                  text |-> IF m.result.isNull THEN before.text
                           ELSE aggregateText(m.result, before.store)]

\* C26: an event of one request leaves the accumulator, final text, settled
\* flag, timer and every other local of the other request as they were, and
\* what a request holds and returns is determined by its own inbound messages:
\* its accumulator and final text are those of its own messages applied in
\* order, and a transcript it resolved with is the trimmed text after some
\* prefix of them
C26_SessionIndependence ==
    /\ [][\A i \in RequestIds :
            sessions'[i].events = sessions[i].events
            /\ sessions'[i].created = sessions[i].created
            => sessions'[i] = sessions[i]]_vars
    /\ [](\A i \in RequestIds :
            /\ sessions[i].accumulated = OwnState(sessions[i].inbound).store
            /\ sessions[i].finalText = OwnState(sessions[i].inbound).text
            /\ sessions[i].outcome.state = "resolved" =>
                 \E n \in 0..Len(sessions[i].inbound) :
                    sessions[i].outcome.text =
                        Trim(OwnState(SubSeq(sessions[i].inbound, 1, n)).text))

\* two requests, their messages interleaved, resolved with different
\* transcripts while both accumulators hold fragments
C26_Witness ==
    /\ sessions # <<>>
    /\ sessions[1].outcome.state = "resolved"
    /\ sessions[2].outcome.state = "resolved"
    /\ sessions[1].outcome.text = <<"a", "b">>
    /\ sessions[2].outcome.text = <<"c">>
    /\ Len(sessions[2].inbound) = 2

----------------------------------------------------------------------------
(* Claims on the hook, continued *)

\* the bodies of stopListening whose fetch has been sent and has not ended
InFlight == {i \in DOMAIN tasks : tasks[i].pc = "fetch"}

\* C27: at most one recognition request of a hook instance is in flight at
\* any time, and processing is true whenever one is in flight.
C27_SingleRequest ==
    /\ Cardinality(InFlight) <= 1
    /\ (InFlight # {} => processing)
\* the step just taken is the rest of the cleanup of stop body i, run after
\* the close of its audio context settled
StopCleanupResumes(i) ==
    /\ tasks[i].type = "stop"
    /\ tasks[i].pc = "closing"
    /\ tasks'[i].pc # "closing"

\* C28: the cleanup started by a stop only releases the capture it belongs to:
\* when it runs on after its await, it neither stops the stream of a capture
\* started later nor clears a reference that holds the stream or the audio
\* context of a capture started later.
C28_OwnCapture ==
    [][\A i \in DOMAIN tasks : StopCleanupResumes(i) =>
          \A id \in CaptureIds : id > tasks[i].ctx =>
              /\ stream'[id] = stream[id]
              /\ (mediaStreamRef = id => mediaStreamRef' = id)
              /\ (audioContextRef = id => audioContextRef' = id)]_vars

----------------------------------------------------------------------------
(* The credentials of the key test (handleTest, xfyun case) next to those of
   the speech route *)

MaxProbeEnv == 1        \* names set in process.env when the two are compared

ProbeAppIdEnvNames == <<"XFYUN_APP_ID", "NEXT_PUBLIC_XFYUN_APP_ID">>

ProbeApiKeyEnvNames ==
    <<"XFYUN_API_KEY", "NEXT_PUBLIC_XFYUN_API_KEY", "IFLYTEK_API_KEY",
      "NEXT_PUBLIC_IFLYTEK_API_KEY">>

ProbeApiSecretEnvNames ==
    <<"XFYUN_APP_SECRET", "XFYUN_API_SECRET", "IFLYTEK_APP_SECRET",
      "IFLYTEK_API_SECRET">>

\* the names either route reads
CompareEnvNames ==
    EnvNames \cup Range(ProbeAppIdEnvNames) \cup Range(ProbeApiKeyEnvNames)
        \cup Range(ProbeApiSecretEnvNames) \cup {"XFYUN_DOMAIN"}

CompareEnvConfigs ==
    UNION {{[n \in CompareEnvNames |-> IF n \in S THEN (IF n \in E THEN "" ELSE n) ELSE NULL] :
                E \in SUBSET S} :
            S \in {T \in SUBSET CompareEnvNames : Cardinality(T) <= MaxProbeEnv}}

\* const domain = process.env.XFYUN_DOMAIN ?? "iat" of the speech route
PostDomain(env) == Coalesce(<<env["XFYUN_DOMAIN"], "iat">>)

\* business.domain of the key test's data frame
ProbeDomain == "iat"

\* getDecryptedUserSecret(userId, key): null without a user
DecryptedUserSecret(u, secrets, key) == IF u = NULL THEN NULL ELSE secrets[key]

\* resolveSecretValue(userId, key): the user's secret when truthy, else the
\* first name of the key's list that process.env defines
resolveSecretValue(u, secrets, env, names, key) ==
    LET primary == DecryptedUserSecret(u, secrets, key)
    IN IF ~Falsy(primary) THEN primary
       ELSE Coalesce([i \in DOMAIN names |-> env[names[i]]])

\* the appId of the key test: getDecryptedUserSecret(...) ?? env ?? env ?? null
ProbeAppIdValue(u, secrets, env) ==
    Coalesce(<<DecryptedUserSecret(u, secrets, "xfyunAppId")>>
             \o [i \in DOMAIN ProbeAppIdEnvNames |-> env[ProbeAppIdEnvNames[i]]])

CompareInit ==
    /\ pc = "creds"
    /\ audioBase64 = "audio"
    /\ user \in {NULL, "user-1"}
    /\ processEnv \in CompareEnvConfigs
    /\ userSecrets \in SecretConfigs
    /\ storeThrows \in BOOLEAN
    /\ appId = NULL
    /\ apiKey = NULL
    /\ apiSecret = NULL
    /\ handshake = NoHandshake
    /\ response = NoResponse
    /\ aborted = FALSE
    /\ probePc = "creds"
    /\ probeAppId = NULL
    /\ probeApiKey = NULL
    /\ probeApiSecret = NULL
    /\ probeHandshake = NoHandshake
    /\ probeAnswer = NULL
    /\ accumulated = <<>>
    /\ finalText = <<>>
    /\ AccIdle
    /\ SessIdle
    /\ HookIdle
    /\ DspIdle
    /\ PairIdle

\* handleTest, case "xfyunApiKey" / "xfyunAppSecret": the three values are
\* resolved and tested in turn; a read of the store that throws leaves the
\* function
ProbeResolve ==
    /\ probePc = "creds"
    /\ IF user # NULL /\ storeThrows
       THEN /\ probeAnswer' = "threw"
            /\ probePc' = "done"
            /\ UNCHANGED <<probeAppId, probeApiKey, probeApiSecret>>
       ELSE LET sec == resolveSecretValue(user, userSecrets, processEnv,
                                          ProbeApiSecretEnvNames, "xfyunAppSecret")
                k == resolveSecretValue(user, userSecrets, processEnv,
                                        ProbeApiKeyEnvNames, "xfyunApiKey")
                a == ProbeAppIdValue(user, userSecrets, processEnv)
            IN /\ probeAppId' = a
               /\ probeApiKey' = k
               /\ probeApiSecret' = sec
               /\ probeAnswer' = IF Falsy(a) THEN "missing appId"
                                 ELSE IF Falsy(k) THEN "missing apiKey"
                                 ELSE IF Falsy(sec) THEN "missing apiSecret"
                                 ELSE probeAnswer
               /\ probePc' = IF Falsy(a) \/ Falsy(k) \/ Falsy(sec) THEN "done" ELSE "sign"
    /\ UNCHANGED <<probeHandshake, accVars, sessVars, postVars, hookVars, dspVars,
                   credVars, pairVars>>

CompareNext ==
    \/ CredResolve
    \/ ProbeResolve

CompareSpec == CompareInit /\ [][CompareNext]_vars

\* C29: for the same user and the same process environment (the store
\* answering), the key test reports a missing credential exactly when the
\* speech route answers NOT_CONFIGURED, and when both go on they go on with
\* the same appId, apiKey, apiSecret and domain.
C29_SameCredentials ==
    (pc # "creds" /\ probePc # "creds" /\ ~storeThrows) =>
        /\ (probePc = "done") <=> (response.error = "NOT_CONFIGURED")
        /\ (probePc = "sign" /\ pc = "sign") =>
              /\ probeAppId = appId
              /\ probeApiKey = apiKey
              /\ probeApiSecret = apiSecret
              /\ ProbeDomain = PostDomain(processEnv)

----------------------------------------------------------------------------
(* Claims on the audio encoding, continued *)

\* C30: resampling an input of length L >= 1 reads only inside the input: the
\* lower and the upper index of every output sample lie in 0 .. L - 1 (so no
\* output sample is computed from an undefined value).
C30_ReadsInside ==
    (resampled.done /\ Len(data) >= 1) =>
        /\ \A k \in reads : 0 <= k /\ k <= Len(data) - 1
        /\ inputSampleRate # targetSampleRate =>
              \A j \in DOMAIN resampled.samples : ~resampled.samples[j].nan

\* C30 witness: two samples at 8000 Hz became four at 16000 Hz; for the last
\* one lowerIndex + 1 is past the end and the upper index is the last sample
C30_Witness ==
    /\ resampled.done
    /\ Len(data) = 2
    /\ inputSampleRate = 8000
    /\ targetSampleRate = TARGET_SAMPLE_RATE
    /\ Len(resampled.samples) = 4
    /\ LowerIndex(3, inputSampleRate, targetSampleRate) + 1 = Len(data)
    /\ reads = {0, 1}
====
